---- MODULE Spec2Model ----
(***************************************************************************)
(* Model of the arirang_learner pipeline: the orchestrator of src/main.py  *)
(* (run_pipeline, step_crawl, step_analyze, step_report) and the           *)
(* acquisition ledger and persistence of src/modules/crawler.py            *)
(* (download_episode, _ensure_download_log, _write_download_log).          *)
(*                                                                         *)
(* A text is a sequence of characters over Chars.  The character "s"       *)
(* stands for the lower-case phrase "script not available", "S" for the    *)
(* same phrase written with any upper-case letter, " " for white space and *)
(* "x" for any other content.                                              *)
(***************************************************************************)
EXTENDS Integers, Sequences, FiniteSets, TLC

\* ------------------------------------------------------------------ bounds

MaxRuns == 1        \* invocations of the pipeline in one behaviour of Spec
MaxReruns == 2      \* the same, in one behaviour of SpecRerun
MaxCalls == 2       \* calls of download_episode in one behaviour of SpecAcq, SpecKeys
MaxRecalls == 3     \* the same, in one behaviour of SpecHeal
MaxDamage == 1      \* artifact files deleted or truncated from outside
MaxTextLen == 1     \* length of a transcript text
MaxEpisodes == 2    \* candidates in one episode list handed to a selector
MaxScriptLen == 3   \* tokens of a transcript handed to the marker slicing
MaxMarkupLen == 3   \* tokens of a transcript handed to the sanitization
MaxCandidates == 2  \* candidate rows handed to the vocabulary analysis
MaxTopN == 2        \* vocabulary.top_n_words
MaxTokens == 2      \* tokens of a transcript handed to the extraction
MaxAnalyses == 2    \* runs of analyze_vocabulary in one behaviour of SpecVocabAgain
MaxResponses == 2   \* responses intercepted in one driven session
MaxRetries == 3     \* crawl.retry_count
MaxChunks == 2      \* chunks in one media response body

\* --------------------------------------------------------------- constants

Dates == {"20240101", "20240102"}
Slot == "2155"
Chars == {" ", "s", "S", "x"}
Sentinel == <<"s">>
MediaUrl == "https://media/ep.mp3"
Urls == {"", MediaUrl}
Steps == {"all", "crawl", "analyze", "report"}

Texts == UNION {[1..n -> Chars] : n \in 0..MaxTextLen}

\* ------------------------------------------------------------ text helpers

\* str.lower()
LowerChar(c) == IF c = "S" THEN "s" ELSE c
Lower(t) == [i \in 1..Len(t) |-> LowerChar(t[i])]

\* str.strip()
RECURSIVE LStrip(_)
LStrip(t) == IF t # <<>> /\ Head(t) = " " THEN LStrip(Tail(t)) ELSE t
RECURSIVE RStrip(_)
RStrip(t) ==
    IF t # <<>> /\ t[Len(t)] = " " THEN RStrip(SubSeq(t, 1, Len(t) - 1)) ELSE t
Strip(t) == RStrip(LStrip(t))

\* str.startswith(prefix)
StartsWith(t, p) == Len(t) >= Len(p) /\ SubSeq(t, 1, Len(p)) = p

\* ----------------------------------------------------------------- state

VARIABLES
    ledger,       \* logs/download_log.json: [kind, doc]
    txt,          \* downloads/{date}_2155_arirang.txt, per date
    mp3,          \* downloads/{date}_2155_arirang.mp3, per date
    meta,         \* downloads/{date}_2155_arirang_meta.json, per date
    vocab,        \* dates d for which logs/vocabulary_{d}.json exists
    complete,     \* per date: the three artifacts are those of one successful call
    damage,       \* artifact files deleted or truncated from outside so far
    runs,         \* invocations started so far (also the wall clock)
    pc,           \* position of the current invocation in run_pipeline
    target_date,  \* --date of the current invocation
    step,         \* --step of the current invocation ("all" when absent)
    today,        \* _get_target_date(): D-1 of the wall clock of this invocation
    playwright,   \* whether the automation package can be imported
    episodes,     \* result of fetch_episode_list
    episode,      \* the episode dict handed from stage to stage
    stages,       \* the stages started by this invocation, in order
    exit,         \* exit status of the last finished invocation
    err,          \* the cause logged for a failure
    trace,        \* ledger and network events of this invocation, in order
    before,       \* what the download_episode call in progress found on entry
    call,         \* a function called on its own: [fn, arg, done, out]
    an,           \* the locals of the analyze_vocabulary call in progress
    session,      \* the locals of the fetch_episode_detail call in progress
    request       \* the locals of the _request_with_retry call in progress

vars == <<ledger, txt, mp3, meta, vocab, complete, damage, runs, pc, target_date,
          step, today, playwright, episodes, episode, stages, exit, err, trace,
          before, call, an, session, request>>

files == <<ledger, txt, mp3, meta, vocab, complete, damage>>

\* The network calls of the program, as they appear in trace.
NetworkEvents == {"browser", "http_kollus", "http_iframe", "http_media"}

\* ---------------------------------------------------------- file contents

\* A transcript file and its text.
NoTxt == [exists |-> FALSE, text |-> <<>>]
\* A media file and the number of chunks written to it.
NoMp3 == [exists |-> FALSE, got |-> 0]
\* A metadata file: whether it is empty, and its downloaded_at.
NoMeta == [exists |-> FALSE, empty |-> TRUE, at |-> 0]

\* A ledger entry; status "none" stands for a key the document does not hold.
NoEntry == [status |-> "none", title |-> "", updated_at |-> 0]
Key(d) == <<d, Slot>>
Keys == {Key(d) : d \in Dates}
EmptyDoc == [k \in Keys |-> NoEntry]

\* Path.stat().st_size > 0 and friends
TxtSize(f) == Len(f.text)
Mp3Size(f) == f.got

\* --------------------------------------------------- ledger (crawler.py)

\* _ensure_download_log: the parsed document, or {} when the file is missing
\* or does not parse (a torn file is empty or a proper prefix of a JSON
\* object, neither of which parses).
EnsureDownloadLog(lf) == IF lf.kind = "doc" THEN lf.doc ELSE EmptyDoc

\* _write_download_log: the file holds the whole document.
WriteDownloadLog(history) == [kind |-> "doc", doc |-> history]

\* Path.write_text opens the file for writing, which truncates it, and then
\* writes the text.  A write interrupted in between leaves the file empty or
\* with a prefix of the text (kind "torn"); interrupted after the last byte
\* it leaves the new document.
InterruptedWrites(history) ==
    {[kind |-> "torn", doc |-> EmptyDoc], WriteDownloadLog(history)}

\* ------------------------------------------- download_episode (crawler.py)

\* date_compact: the episode's date_str when it is eight digits, else D-1.
DateCompact(ep, tdy) == IF ep.date_str \in Dates THEN ep.date_str ELSE tdy

\* Mutant: the integrity check without the placeholder test.
TxtOkNoPlaceholder(f) == f.exists /\ TxtSize(f) > 0

\* txt_ok: the file exists, is not empty, and its stripped, lower-cased text
\* does not start with "script not available".
TxtOk(f) ==
    /\ f.exists
    /\ TxtSize(f) > 0
    /\ ~StartsWith(Lower(Strip(f.text)), Sentinel)

\* Mutant: a media file of one chunk counts as empty.
Mp3OkOffByOne(f) == f.exists /\ Mp3Size(f) > 1

Mp3Ok(f) == f.exists /\ Mp3Size(f) > 0

MetaOk(f) == f.exists /\ ~f.empty

\* existing = history.get(key, {})
Existing(lf, d) == EnsureDownloadLog(lf)[Key(d)]

\* The condition of the early return with status "skipped".
SkipsDownload(lf, t, m, me, d) ==
    /\ Existing(lf, d).status = "success"
    /\ TxtOk(t[d])
    /\ Mp3Ok(m[d])
    /\ MetaOk(me[d])

\* Mutant: the media URL is not checked.
PreconditionErrorScriptOnly(ep) ==
    IF ep.script_text = <<>> THEN "ValueError: episode.script_text is empty" ELSE ""

\* The precondition checked before the first write: "" when it holds, else
\* the ValueError raised.
PreconditionError(ep) ==
    IF ep.script_text = <<>> THEN "ValueError: episode.script_text is empty"
    ELSE IF ep.mp3_url = "" THEN "ValueError: episode.mp3_url is empty"
    ELSE ""

\* txt_path.write_text(script_text)
WrittenTxt(text) == [exists |-> TRUE, text |-> text]

\* mp3_path.open("wb") and the chunks written before the stream ended
StreamedMp3(got) == [exists |-> TRUE, got |-> got]

\* meta_path.write_text(json.dumps(meta))
WrittenMeta(at) == [exists |-> TRUE, empty |-> FALSE, at |-> at]

\* history[key] = {"status": "success", ...}
SuccessEntry(ep, at) == [status |-> "success", title |-> ep.title, updated_at |-> at]

\* Mutant: the new entry is put into an empty document, not the one read.
MergedHistoryFresh(lf, d, ep, at) == [EmptyDoc EXCEPT ![Key(d)] = SuccessEntry(ep, at)]

MergedHistory(lf, d, ep, at) ==
    [EnsureDownloadLog(lf) EXCEPT ![Key(d)] = SuccessEntry(ep, at)]

\* The bundle returned: the episode with the artifact paths and the status.
Bundle(ep, d, status) == [ep EXCEPT !.txt_path = d, !.status = status]

\* ------------------------------------------------ what a call starts from

\* The ledger file holds a success entry for the key of date d.
RecordedSuccess(d) ==
    ledger.kind = "doc" /\ ledger.doc[Key(d)].status = "success"

\* The text starts with the placeholder "script not available" (compared as
\* the integrity check does: surrounding white space and letter case ignored).
IsPlaceholder(t) == StartsWith(Lower(Strip(t)), Sentinel)

\* The three artifact files of date d exist, are not empty, and the
\* transcript is not the placeholder.
ArtifactsIntact(d) ==
    /\ txt[d].exists /\ txt[d].text # <<>> /\ ~IsPlaceholder(txt[d].text)
    /\ mp3[d].exists /\ mp3[d].got > 0
    /\ meta[d].exists /\ ~meta[d].empty

\* What a download_episode call for date d finds on entry (a history
\* variable, not read by the program).
Found(d) == [recorded |-> RecordedSuccess(d), intact |-> ArtifactsIntact(d)]
NothingFound == [recorded |-> FALSE, intact |-> FALSE]

\* ------------------------------------------------------ episodes (main.py)

Title == "21:55 Arirang News"
FirstDate == "20240101"

NoEpisode ==
    [title |-> "", date_str |-> "", airtime |-> "", prefetched |-> "",
     script_text |-> <<>>, mp3_url |-> "", status |-> "", txt_path |-> "",
     txt_filename |-> "", date |-> ""]

\* The single candidate fetch_episode_list builds.
Candidate(d, prefetched) ==
    [NoEpisode EXCEPT !.title = Title, !.date_str = d, !.airtime = "21:55",
                      !.prefetched = prefetched]

\* has_token: title + " " + airtime matches 21[:.]55, \b10\s*PM\b or \b2155\b;
\* the first pattern has no word boundaries and also matches "News21:55".
HasToken(ep) == ep.title \in {Title, "News21:55"} \/ ep.airtime = "21:55"

\* hhmm: the airtime without its colon when it is \d{2}:\d{2}, else "0000"
Hhmm(ep) ==
    IF ep.airtime = "21:55" THEN 2155 ELSE IF ep.airtime = "09:00" THEN 900 ELSE 0

Filter(seq, Keep(_)) == SelectSeq(seq, Keep)

\* sorted(d1, key=hhmm, reverse=True)[0]: the sort is stable, so this is the
\* first candidate, in list order, whose key is greatest.
Latest(d1) ==
    LET best == CHOOSE i \in 1..Len(d1) :
                    /\ \A j \in 1..Len(d1) : Hhmm(d1[j]) <= Hhmm(d1[i])
                    /\ \A j \in 1..(i - 1) : Hhmm(d1[j]) < Hhmm(d1[i])
    IN  d1[best]

\* Mutant: the latest candidate of the date, slot token or not.
SelectLatestForDate(eps, target) ==
    LET OnDate(e) == e.date_str = target
        d1 == Filter(eps, OnDate)
    IN  IF d1 = <<>> THEN NoEpisode ELSE Latest(d1)

\* _select_episode_for_date; NoEpisode stands for None.
SelectEpisodeForDate(eps, target) ==
    LET OnDate(e) == e.date_str = target
        d1 == Filter(eps, OnDate)
        matched == Filter(d1, HasToken)
    IN  IF d1 = <<>> THEN NoEpisode
        ELSE IF matched # <<>> THEN matched[1]
        ELSE Latest(d1)

\* _load_episode_from_meta: "" when the metadata file of the target date
\* exists and parses, else the exception raised.
LoadMetaError(me, target) ==
    IF ~me[target].exists THEN "FileNotFoundError: Meta file not found"
    ELSE IF me[target].empty THEN "JSONDecodeError"
    ELSE ""

EpisodeFromMeta(me, target) ==
    [NoEpisode EXCEPT !.title = Title, !.airtime = "21:55",
                      !.date = target, !.txt_path = target]

\* step_analyze: "" when the stage completes, else the exception raised.
\* fault: an exception inside analyze_vocabulary or save_vocabulary.
StepAnalyzeError(ep, t, fault) ==
    IF Strip(ep.script_text) = <<>> /\ ep.txt_path = ""
        THEN "IsADirectoryError"
    ELSE IF Strip(ep.script_text) = <<>> /\ ~t[ep.txt_path].exists /\ ep.date = ""
        THEN "FileNotFoundError: No script_text and no txt_path available"
    ELSE IF Strip(ep.script_text) = <<>> /\ ~t[ep.txt_path].exists /\ ~t[ep.date].exists
        THEN "FileNotFoundError: Script txt not found"
    ELSE IF fault THEN "analyze failed"
    ELSE ""

\* date_digits of step_analyze: the episode's date, else D-1.
AnalyzeDate(ep, tdy) == IF ep.date # "" THEN ep.date ELSE tdy

\* ----------------------------------------------------------------- Init

\* analyze_vocabulary is not running.
NoAnalysis == [pc |-> "none"]

\* fetch_episode_detail is not running.
NoSession ==
    [pc |-> "none", mp3_url |-> "", iframe_src |-> "", api_json_cache |-> <<>>,
     arrived |-> 0, handlers |-> <<>>, target_ui_script |-> <<>>,
     collected |-> <<>>,
     script_text |-> <<>>, trace |-> <<>>]

\* _request_with_retry is not running.
NoRequest == [pc |-> "none"]

\* No process is running.
NotStarted ==
    /\ an = NoAnalysis
    /\ session = NoSession
    /\ request = NoRequest
    /\ runs = 0
    /\ pc = "idle"
    /\ target_date = "20240101"
    /\ step = "all"
    /\ today = "20240101"
    /\ playwright = TRUE
    /\ episodes = <<>>
    /\ episode = NoEpisode
    /\ stages = <<>>
    /\ exit = 0
    /\ err = ""
    /\ trace = <<>>
    /\ before = NothingFound

\* The data directory before the first acquisition.
NoFiles ==
    /\ ledger = [kind |-> "missing", doc |-> EmptyDoc]
    /\ txt = [d \in Dates |-> NoTxt]
    /\ mp3 = [d \in Dates |-> NoMp3]
    /\ meta = [d \in Dates |-> NoMeta]
    /\ vocab = {}
    /\ complete = [d \in Dates |-> FALSE]
    /\ damage = 0

\* The data directory an earlier successful acquisition of one date left:
\* what download_episode wrote on its way to returning "success".
KeptFiles ==
    /\ ledger = WriteDownloadLog(
                    MergedHistory([kind |-> "missing", doc |-> EmptyDoc], FirstDate,
                                  [NoEpisode EXCEPT !.title = Title], 0))
    /\ txt = [d \in Dates |-> IF d = FirstDate THEN WrittenTxt(<<"x">>) ELSE NoTxt]
    /\ mp3 = [d \in Dates |-> IF d = FirstDate THEN StreamedMp3(1) ELSE NoMp3]
    /\ meta = [d \in Dates |-> IF d = FirstDate THEN WrittenMeta(0) ELSE NoMeta]
    /\ vocab = {}
    /\ complete = [d \in Dates |-> d = FirstDate]
    /\ damage = 0

\* No function is called on its own.
NoCall == [fn |-> "", arg |-> <<>>, done |-> FALSE, out |-> <<>>]

Init == NoFiles /\ NotStarted /\ call = NoCall

\* The first invocation finds the data directory empty or as an earlier
\* acquisition left it.
InitKept == (NoFiles \/ KeptFiles) /\ NotStarted /\ call = NoCall

run_args == <<target_date, step, today, playwright>>

\* sys.exit(1) after logging the cause (run_pipeline's handlers).
Fail(cause) == pc' = "exited" /\ exit' = 1 /\ err' = cause

\* The invocation returns normally.
Finish == pc' = "exited" /\ exit' = 0 /\ err' = ""

\* ------------------------------------------------- run_pipeline (main.py)

\* __main__ and the head of run_pipeline: the first stage starts.
StartRunWithin(d, st, tdy, pw, limit) ==
    /\ pc = "idle"
    /\ runs < limit
    /\ runs' = runs + 1
    /\ target_date' = d
    /\ step' = st
    /\ today' = tdy
    /\ playwright' = pw
    /\ episodes' = <<>>
    /\ episode' = NoEpisode
    /\ trace' = <<>>
    /\ err' = ""
    /\ stages' = <<IF st = "all" THEN "crawl" ELSE st>>
    /\ pc' = CASE st \in {"all", "crawl"} -> "list"
               [] st = "analyze" -> "analyze_only"
               [] st = "report" -> "report_only"
    /\ UNCHANGED <<before, files, exit>>
    /\ UNCHANGED <<call, an, session, request>>

StartRun(d, st, tdy, pw) == StartRunWithin(d, st, tdy, pw, MaxRuns)

StartRunAgain(d, st, tdy, pw) == StartRunWithin(d, st, tdy, pw, MaxReruns)

\* fetch_episode_list, the automation package importable: one seed candidate
\* dated D-1; no request is sent.
FetchEpisodeList ==
    /\ pc = "list"
    /\ playwright
    /\ episodes' = <<Candidate(today, "")>>
    /\ pc' = "select"
    /\ UNCHANGED <<before, files, runs, run_args, episode, stages, exit, err, trace>>
    /\ UNCHANGED <<call, an, session, request>>

\* fetch_episode_list, fallback: the static page answers with a media URL
\* and an upload date.
FetchEpisodeListFallback(url, inferred) ==
    /\ pc = "list"
    /\ ~playwright
    /\ episodes' = <<Candidate(inferred, url)>>
    /\ trace' = Append(trace, "http_kollus")
    /\ pc' = "select"
    /\ UNCHANGED <<before, files, runs, run_args, episode, stages, exit, err>>
    /\ UNCHANGED <<call, an, session, request>>

\* fetch_episode_list, fallback: the static page cannot be fetched; the
\* RuntimeError of _request_with_retry reaches run_pipeline.
FetchEpisodeListFailed ==
    /\ pc = "list"
    /\ ~playwright
    /\ trace' = Append(trace, "http_kollus")
    /\ Fail("RuntimeError: Request failed after retries")
    /\ UNCHANGED <<before, files, runs, run_args, episodes, episode, stages>>
    /\ UNCHANGED <<call, an, session, request>>

\* step_crawl: _select_episode_for_date; None ends the run.
SelectEpisode ==
    /\ pc = "select"
    /\ LET chosen == SelectEpisodeForDate(episodes, target_date)
       IN  IF chosen = NoEpisode
           THEN /\ Fail("crawl failed: no matching episode")
                /\ UNCHANGED episode
           ELSE /\ episode' = chosen
                /\ pc' = "detail"
                /\ UNCHANGED <<exit, err>>
    /\ UNCHANGED <<before, files, runs, run_args, episodes, stages, trace>>
    /\ UNCHANGED <<call, an, session, request>>

\* ----------------------------------------- fetch_episode_detail (crawler.py)

\* The driven session completes: transcript text (stripped by the
\* post-processing) and the media URL the session found; when it found none
\* and the page holds a player iframe, the iframe page is fetched for one.
FetchDetailSession(raw, url, iframe, iurl) ==
    /\ pc = "detail"
    /\ playwright
    /\ LET fetch == url = "" /\ iframe
       IN  /\ episode' = [episode EXCEPT !.script_text = Strip(raw),
                                          !.mp3_url = IF fetch THEN iurl ELSE url]
           /\ trace' = IF fetch THEN trace \o <<"browser", "http_iframe">>
                       ELSE Append(trace, "browser")
    /\ pc' = "download"
    /\ before' = Found(DateCompact(episode', today))
    /\ UNCHANGED <<files, runs, run_args, episodes, stages, exit, err>>
    /\ UNCHANGED <<call, an, session, request>>

\* What the program did before the driven session failed.
SessionAttempt == IF playwright THEN <<"browser">> ELSE <<>>

\* The driven session fails and the list stage prefetched a media URL: the
\* episode gets that URL and no transcript.
FetchDetailFallbackPrefetched ==
    /\ pc = "detail"
    /\ episode.prefetched # ""
    /\ episode' = [episode EXCEPT !.mp3_url = episode.prefetched,
                                  !.date_str = IF episode.date_str # ""
                                               THEN episode.date_str ELSE today,
                                  !.script_text = <<>>]
    /\ trace' = trace \o SessionAttempt
    /\ pc' = "download"
    /\ before' = Found(DateCompact(episode', today))
    /\ UNCHANGED <<files, runs, run_args, episodes, stages, exit, err>>
    /\ UNCHANGED <<call, an, session, request>>

\* The driven session fails and nothing was prefetched: the static page
\* supplies the media URL and the inferred date.
FetchDetailFallbackKollus(url, inferred) ==
    /\ pc = "detail"
    /\ episode.prefetched = ""
    /\ episode' = [episode EXCEPT !.mp3_url = url, !.date_str = inferred,
                                  !.script_text = <<>>]
    /\ trace' = trace \o SessionAttempt \o <<"http_kollus">>
    /\ pc' = "download"
    /\ before' = Found(DateCompact(episode', today))
    /\ UNCHANGED <<files, runs, run_args, episodes, stages, exit, err>>
    /\ UNCHANGED <<call, an, session, request>>

\* The driven session fails and the static page cannot be fetched either.
FetchDetailFallbackFailed ==
    /\ pc = "detail"
    /\ episode.prefetched = ""
    /\ trace' = trace \o SessionAttempt \o <<"http_kollus">>
    /\ Fail("RuntimeError: Request failed after retries")
    /\ UNCHANGED <<before, files, runs, run_args, episodes, episode, stages>>
    /\ UNCHANGED <<call, an, session, request>>

\* --------------------------------------------- download_episode (crawler.py)

\* The key date of the call in progress.
CallDate == DateCompact(episode, today)

\* The ledger names the key a success and the three artifacts verify: the
\* bundle is returned with status "skipped".
DownloadSkipped ==
    /\ pc = "download"
    /\ SkipsDownload(ledger, txt, mp3, meta, CallDate)
    /\ episode' = Bundle(episode, CallDate, "skipped")
    /\ trace' = Append(trace, "ledger_read")
    /\ pc' = "crawled"
    /\ UNCHANGED <<before, files, runs, run_args, episodes, stages, exit, err>>
    /\ UNCHANGED <<call, an, session, request>>

\* Not skipped, and the transcript text or the media URL is empty.
DownloadPreconditionFailed ==
    /\ pc = "download"
    /\ ~SkipsDownload(ledger, txt, mp3, meta, CallDate)
    /\ PreconditionError(episode) # ""
    /\ trace' = Append(trace, "ledger_read")
    /\ Fail(PreconditionError(episode))
    /\ UNCHANGED <<before, files, runs, run_args, episodes, episode, stages>>
    /\ UNCHANGED <<call, an, session, request>>

\* The transcript is written, then the media request fails after its retries.
DownloadRequestFailed ==
    /\ pc = "download"
    /\ ~SkipsDownload(ledger, txt, mp3, meta, CallDate)
    /\ PreconditionError(episode) = ""
    /\ txt' = [txt EXCEPT ![CallDate] = WrittenTxt(episode.script_text)]
    /\ complete' = [complete EXCEPT ![CallDate] = FALSE]
    /\ trace' = trace \o <<"ledger_read", "http_media">>
    /\ Fail("RuntimeError: Request failed after retries")
    /\ UNCHANGED <<before, ledger, mp3, meta, vocab, damage, runs, run_args, episodes,
                   episode, stages>>
    /\ UNCHANGED <<call, an, session, request>>

\* The media file is opened and the response breaks off after j chunks,
\* before its end.
DownloadStreamBroken(j) ==
    /\ pc = "download"
    /\ ~SkipsDownload(ledger, txt, mp3, meta, CallDate)
    /\ PreconditionError(episode) = ""
    /\ txt' = [txt EXCEPT ![CallDate] = WrittenTxt(episode.script_text)]
    /\ mp3' = [mp3 EXCEPT ![CallDate] = StreamedMp3(j)]
    /\ complete' = [complete EXCEPT ![CallDate] = FALSE]
    /\ trace' = trace \o <<"ledger_read", "http_media">>
    /\ Fail("ChunkedEncodingError")
    /\ UNCHANGED <<before, ledger, meta, vocab, damage, runs, run_args, episodes,
                   episode, stages>>
    /\ UNCHANGED <<call, an, session, request>>

\* The media response of n chunks is streamed to its end; metadata and the
\* ledger are written and the bundle is returned with status "success".
DownloadSuccess(n) ==
    /\ pc = "download"
    /\ ~SkipsDownload(ledger, txt, mp3, meta, CallDate)
    /\ PreconditionError(episode) = ""
    /\ txt' = [txt EXCEPT ![CallDate] = WrittenTxt(episode.script_text)]
    /\ mp3' = [mp3 EXCEPT ![CallDate] = StreamedMp3(n)]
    /\ meta' = [meta EXCEPT ![CallDate] = WrittenMeta(runs)]
    /\ ledger' = WriteDownloadLog(MergedHistory(ledger, CallDate, episode, runs))
    /\ complete' = [complete EXCEPT ![CallDate] = TRUE]
    /\ episode' = Bundle(episode, CallDate, "success")
    /\ trace' = trace \o <<"ledger_read", "http_media", "ledger_write">>
    /\ pc' = "crawled"
    /\ UNCHANGED <<before, vocab, damage, runs, run_args, episodes, stages, exit, err>>
    /\ UNCHANGED <<call, an, session, request>>

\* As DownloadSuccess, but the process is interrupted while
\* _write_download_log writes the ledger file, which is left as lf; the
\* program sets no exit status (-1 here).
DownloadInterrupted(n, lf) ==
    /\ pc = "download"
    /\ ~SkipsDownload(ledger, txt, mp3, meta, CallDate)
    /\ PreconditionError(episode) = ""
    /\ lf \in InterruptedWrites(MergedHistory(ledger, CallDate, episode, runs))
    /\ txt' = [txt EXCEPT ![CallDate] = WrittenTxt(episode.script_text)]
    /\ mp3' = [mp3 EXCEPT ![CallDate] = StreamedMp3(n)]
    /\ meta' = [meta EXCEPT ![CallDate] = WrittenMeta(runs)]
    /\ ledger' = lf
    /\ complete' = [complete EXCEPT ![CallDate] = (lf.kind = "doc")]
    /\ trace' = trace \o <<"ledger_read", "http_media", "ledger_write">>
    /\ pc' = "exited"
    /\ exit' = -1
    /\ err' = "interrupted"
    /\ UNCHANGED <<before, vocab, damage, runs, run_args, episodes, episode, stages>>
    /\ UNCHANGED <<call, an, session, request>>

\* ------------------------------------------ stages of run_pipeline (main.py)

\* Mutant: the crawl stage goes on to analyze also under --step crawl.
CrawlDoneIgnoresStep ==
    /\ pc = "crawled"
    /\ episode' = [episode EXCEPT !.txt_filename = target_date, !.date = target_date]
    /\ pc' = "analyze"
    /\ stages' = Append(stages, "analyze")
    /\ UNCHANGED <<before, exit, err, files, runs, run_args, episodes, trace>>
    /\ UNCHANGED <<call, an, session, request>>

\* The tail of step_crawl and the end of the crawl stage: with --step crawl
\* the run returns, else the analyze stage starts.
CrawlDone ==
    /\ pc = "crawled"
    /\ episode' = [episode EXCEPT !.txt_filename = target_date, !.date = target_date]
    /\ IF step = "crawl"
       THEN Finish /\ UNCHANGED stages
       ELSE /\ pc' = "analyze"
            /\ stages' = Append(stages, "analyze")
            /\ UNCHANGED <<exit, err>>
    /\ UNCHANGED <<before, files, runs, run_args, episodes, trace>>
    /\ UNCHANGED <<call, an, session, request>>

\* The analyze stage of a full run; on success the report stage starts.
Analyze(fault) ==
    /\ pc = "analyze"
    /\ IF StepAnalyzeError(episode, txt, fault) # ""
       THEN /\ Fail(StepAnalyzeError(episode, txt, fault))
            /\ UNCHANGED <<vocab, stages>>
       ELSE /\ vocab' = vocab \cup {AnalyzeDate(episode, today)}
            /\ pc' = "report"
            /\ stages' = Append(stages, "report")
            /\ UNCHANGED <<exit, err>>
    /\ UNCHANGED <<before, ledger, txt, mp3, meta, complete, damage, runs, run_args,
                   episodes, episode, trace>>
    /\ UNCHANGED <<call, an, session, request>>

\* The report stage of a full run.  fault: an exception in generate_report.
Report(fault) ==
    /\ pc = "report"
    /\ IF fault THEN Fail("report failed") ELSE Finish
    /\ UNCHANGED <<before, files, runs, run_args, episodes, episode, stages, trace>>
    /\ UNCHANGED <<call, an, session, request>>

\* --step analyze: the episode is loaded from the metadata file.
AnalyzeOnly(fault) ==
    /\ pc = "analyze_only"
    /\ IF LoadMetaError(meta, target_date) # ""
       THEN /\ Fail(LoadMetaError(meta, target_date))
            /\ UNCHANGED <<vocab, episode>>
       ELSE /\ episode' = EpisodeFromMeta(meta, target_date)
            /\ IF StepAnalyzeError(episode', txt, fault) # ""
               THEN Fail(StepAnalyzeError(episode', txt, fault)) /\ UNCHANGED vocab
               ELSE Finish /\ vocab' = vocab \cup {AnalyzeDate(episode', today)}
    /\ UNCHANGED <<before, ledger, txt, mp3, meta, complete, damage, runs, run_args,
                   episodes, stages, trace>>
    /\ UNCHANGED <<call, an, session, request>>

\* --step report: needs the metadata file and the vocabulary JSON.
ReportOnly(fault) ==
    /\ pc = "report_only"
    /\ IF LoadMetaError(meta, target_date) # ""
       THEN Fail(LoadMetaError(meta, target_date)) /\ UNCHANGED episode
       ELSE /\ episode' = EpisodeFromMeta(meta, target_date)
            /\ IF target_date \notin vocab
               THEN Fail("FileNotFoundError: Vocabulary JSON not found")
               ELSE IF fault THEN Fail("report failed") ELSE Finish
    /\ UNCHANGED <<before, files, runs, run_args, episodes, stages, trace>>
    /\ UNCHANGED <<call, an, session, request>>

\* The process is gone: what it held in memory is lost, the files stay.
ProcessExit ==
    /\ pc = "exited"
    /\ pc' = "idle"
    /\ target_date' = "20240101"
    /\ step' = "all"
    /\ today' = "20240101"
    /\ playwright' = TRUE
    /\ episodes' = <<>>
    /\ episode' = NoEpisode
    /\ stages' = <<>>
    /\ exit' = 0
    /\ err' = ""
    /\ trace' = <<>>
    /\ before' = NothingFound
    /\ UNCHANGED <<files, runs>>
    /\ UNCHANGED <<call, an, session, request>>

\* ------------------------------------------------------------ environment

Artifacts == {"txt", "mp3", "meta"}

\* Between invocations an artifact file is deleted from outside.
DeleteArtifact(d, which) ==
    /\ pc = "idle"
    /\ damage < MaxDamage
    /\ CASE which = "txt" -> txt[d].exists /\ txt' = [txt EXCEPT ![d] = NoTxt]
                             /\ UNCHANGED <<mp3, meta>>
         [] which = "mp3" -> mp3[d].exists /\ mp3' = [mp3 EXCEPT ![d] = NoMp3]
                             /\ UNCHANGED <<txt, meta>>
         [] which = "meta" -> meta[d].exists /\ meta' = [meta EXCEPT ![d] = NoMeta]
                              /\ UNCHANGED <<txt, mp3>>
    /\ complete' = [complete EXCEPT ![d] = FALSE]
    /\ damage' = damage + 1
    /\ UNCHANGED <<before, ledger, vocab, runs, pc, run_args, episodes, episode, stages,
                   exit, err, trace>>
    /\ UNCHANGED <<call, an, session, request>>

\* Between invocations an artifact file is truncated to empty from outside.
TruncateArtifact(d, which) ==
    /\ pc = "idle"
    /\ damage < MaxDamage
    /\ CASE which = "txt" ->
                /\ TxtSize(txt[d]) > 0
                /\ txt' = [txt EXCEPT ![d] = [@ EXCEPT !.text = <<>>]]
                /\ UNCHANGED <<mp3, meta>>
         [] which = "mp3" ->
                /\ Mp3Size(mp3[d]) > 0
                /\ mp3' = [mp3 EXCEPT ![d] = [@ EXCEPT !.got = 0]]
                /\ UNCHANGED <<txt, meta>>
         [] which = "meta" ->
                /\ MetaOk(meta[d])
                /\ meta' = [meta EXCEPT ![d] = [@ EXCEPT !.empty = TRUE]]
                /\ UNCHANGED <<txt, mp3>>
    /\ complete' = [complete EXCEPT ![d] = FALSE]
    /\ damage' = damage + 1
    /\ UNCHANGED <<before, ledger, vocab, runs, pc, run_args, episodes, episode, stages,
                   exit, err, trace>>
    /\ UNCHANGED <<call, an, session, request>>

\* -------------------------------------------- download_episode called alone

\* The episodes a caller can hand to download_episode: any transcript text,
\* with or without a media URL, dated or not.
EpisodeInputs ==
    {[NoEpisode EXCEPT !.title = Title, !.airtime = "21:55", !.date_str = d,
                       !.script_text = t, !.mp3_url = u] :
        d \in Dates \cup {""}, t \in Texts, u \in Urls}

\* Those with a transcript that is empty or plain content.
PlainInputs == {ep \in EpisodeInputs : ep.script_text \in {<<>>, <<"x">>}}

\* A process calls download_episode(ep, cfg) and ends.  D-1 is read only
\* for an episode without a date, so a dated episode is taken to be of D-1.
AcquireWithin(ep, tdy, limit) ==
    /\ pc = "idle"
    /\ ep.date_str \in {"", tdy}
    /\ runs < limit
    /\ runs' = runs + 1
    /\ episode' = ep
    /\ today' = tdy
    /\ target_date' = DateCompact(ep, tdy)
    /\ step' = "crawl"
    /\ stages' = <<"crawl">>
    /\ pc' = "download"
    /\ before' = Found(DateCompact(ep, tdy))
    /\ UNCHANGED <<files, playwright, episodes, exit, err, trace>>
    /\ UNCHANGED <<call, an, session, request>>

\* Calls for the key of one date.
Acquire(ep) == AcquireWithin(ep, FirstDate, MaxCalls)

AcquireAgain(ep) == AcquireWithin(ep, FirstDate, MaxRecalls)

\* Calls for the keys of all dates.
AcquireKey(ep, tdy) == AcquireWithin(ep, tdy, MaxCalls)

\* ------------------------------------------------------------------- Next

Downloads ==
    \/ DownloadSkipped
    \/ DownloadPreconditionFailed
    \/ DownloadRequestFailed
    \/ \E j \in 0..(MaxChunks - 1) : DownloadStreamBroken(j)
    \/ \E n \in 0..MaxChunks : DownloadSuccess(n)
    \/ \E n \in 0..MaxChunks :
           \E lf \in InterruptedWrites(MergedHistory(ledger, CallDate, episode, runs)) :
               DownloadInterrupted(n, lf)

Damages ==
    \/ \E d \in Dates, which \in Artifacts : DeleteArtifact(d, which)
    \/ \E d \in Dates, which \in Artifacts : TruncateArtifact(d, which)

\* The steps of one invocation of the pipeline after its start.
Pipeline ==
    \/ FetchEpisodeList
    \/ \E url \in Urls, inferred \in Dates : FetchEpisodeListFallback(url, inferred)
    \/ FetchEpisodeListFailed
    \/ SelectEpisode
    \/ \E raw \in Texts, url \in Urls, iframe \in BOOLEAN, iurl \in Urls :
           FetchDetailSession(raw, url, iframe, iurl)
    \/ FetchDetailFallbackPrefetched
    \/ \E url \in Urls, inferred \in Dates : FetchDetailFallbackKollus(url, inferred)
    \/ FetchDetailFallbackFailed
    \/ Downloads
    \/ CrawlDone
    \/ \E fault \in BOOLEAN : Analyze(fault)
    \/ \E fault \in BOOLEAN : Report(fault)
    \/ \E fault \in BOOLEAN : AnalyzeOnly(fault)
    \/ \E fault \in BOOLEAN : ReportOnly(fault)
    \/ ProcessExit

Next ==
    \/ \E d \in Dates, st \in Steps, tdy \in Dates, pw \in BOOLEAN :
           StartRun(d, st, tdy, pw)
    \/ Pipeline

\* The pipeline, invoked up to MaxRuns times on a data directory that is
\* empty or holds an earlier acquisition.
Spec == InitKept /\ [][Next]_vars

NextRerun ==
    \/ \E d \in Dates, st \in Steps, tdy \in Dates, pw \in BOOLEAN :
           StartRunAgain(d, st, tdy, pw)
    \/ Pipeline

\* The pipeline, invoked up to MaxReruns times, from an empty data directory.
SpecRerun == Init /\ [][NextRerun]_vars

NextAcq ==
    \/ \E ep \in EpisodeInputs : Acquire(ep)
    \/ Downloads
    \/ CrawlDone
    \/ ProcessExit
    \/ Damages

\* download_episode alone, called up to MaxCalls times for the key of one
\* date, with artifact files damaged in between.
SpecAcq == Init /\ [][NextAcq]_vars

NextHeal ==
    \/ \E ep \in EpisodeInputs : AcquireAgain(ep)
    \/ Downloads
    \/ CrawlDone
    \/ ProcessExit
    \/ Damages

\* The same, called up to MaxRecalls times.
SpecHeal == Init /\ [][NextHeal]_vars

NextKeys ==
    \/ \E ep \in PlainInputs, tdy \in Dates : AcquireKey(ep, tdy)
    \/ Downloads
    \/ CrawlDone
    \/ ProcessExit

\* download_episode alone, called up to MaxCalls times for the keys of all
\* dates.
SpecKeys == Init /\ [][NextKeys]_vars

\* ------------------------------------------------ functions called alone

\* Everything but call, an and session.
process == <<files, runs, pc, run_args, episodes, episode, stages, exit, err,
             trace, before>>

\* The function is about to be called with arg.
Calling(fn, arg) == [fn |-> fn, arg |-> arg, done |-> FALSE, out |-> <<>>]

\* The function called returns out.
Return(out) ==
    /\ call' = [call EXCEPT !.done = TRUE, !.out = out]
    /\ UNCHANGED <<process, an, session, request>>

\* --------------------------------------------------------- the two selectors

Titles == {Title, "News21:55", "Morning News"}
Airtimes == {"21:55", "09:00", "9:00", ""}

\* Candidates of an episode list: with or without the slot token in the
\* title, with the slot's airtime, another one, one not of the form HH:MM or
\* none.
Candidates ==
    {[NoEpisode EXCEPT !.title = t, !.date_str = d, !.airtime = a] :
        t \in Titles, d \in Dates, a \in Airtimes}

CandidateLists == UNION {[1..n -> Candidates] : n \in 0..MaxEpisodes}

\* has_target_time: title + " " + airtime matches one of TIME_PATTERNS, each
\* of them between word boundaries: "News21:55" does not match.
HasTargetTime(ep) == ep.title = Title \/ ep.airtime = "21:55"

\* The place of an airtime in the order of strings:
\* "" < "09:00" < "21:55" < "9:00".
AirtimeOrder(a) ==
    IF a = "9:00" THEN 3 ELSE IF a = "21:55" THEN 2 ELSE IF a = "09:00" THEN 1 ELSE 0

\* sorted(d1, key=airtime, reverse=True)[0], the sort being stable
LatestAirtime(d1) ==
    LET best == CHOOSE i \in 1..Len(d1) :
                    /\ \A j \in 1..Len(d1) :
                           AirtimeOrder(d1[j].airtime) <= AirtimeOrder(d1[i].airtime)
                    /\ \A j \in 1..(i - 1) :
                           AirtimeOrder(d1[j].airtime) < AirtimeOrder(d1[i].airtime)
    IN  d1[best]

\* Mutant: no candidate of D-1 gives None, as in the orchestration stage.
SelectTargetEpisodeStrict(eps, tdy) == SelectEpisodeForDate(eps, tdy)

\* _select_target_episode, D-1 being tdy; NoEpisode stands for None.
SelectTargetEpisode(eps, tdy) ==
    LET OnDate(e) == e.date_str = tdy
        d1 == Filter(eps, OnDate)
        preferred == Filter(d1, HasTargetTime)
    IN  IF d1 = <<>> THEN (IF eps # <<>> THEN eps[1] ELSE NoEpisode)
        ELSE IF preferred # <<>> THEN preferred[1]
        ELSE LatestAirtime(d1)

\* run_pipeline on the result of step_crawl's selection: sys.exit(1) on None.
CrawlExit(chosen) == IF chosen = NoEpisode THEN 1 ELSE 0

SelectorArgs ==
    {[episodes |-> eps, today |-> tdy, target_date |-> d] :
        eps \in CandidateLists, tdy \in Dates, d \in Dates}

\* fetch_episode_list hands its candidates to _select_target_episode, and
\* step_crawl hands the same list to _select_episode_for_date.
CallSelectors ==
    /\ call.fn = "select" /\ ~call.done
    /\ LET chosen == SelectEpisodeForDate(call.arg.episodes, call.arg.target_date)
       IN  Return([list_stage |-> SelectTargetEpisode(call.arg.episodes, call.arg.today),
                   orchestration |-> chosen,
                   exit |-> CrawlExit(chosen)])

InitSelect ==
    NoFiles /\ NotStarted /\ call \in {Calling("select", a) : a \in SelectorArgs}

NextSelect == CallSelectors

\* The two selectors on every candidate list of up to MaxEpisodes candidates.
SpecSelect == InitSelect /\ [][NextSelect]_vars

\* ------------------------------------- _slice_script_by_episode_marker

\* A transcript as the slicing sees it: content, line feeds, carriage
\* returns, and whole per-episode markers "<id> <date> Podcast Play <time>
\* Arirang News": m1 of the first date at 21:55, m2 of the second date at
\* 21:55, m3 of the first date at 09:00.
MarkerTokens == {"m1", "m2", "m3"}
ScriptTokens == {"x", "\n", "\r"} \cup MarkerTokens
Scripts == UNION {[1..n -> ScriptTokens] : n \in 0..MaxScriptLen}

\* m.group("date") and m.group("time") of a marker, the date being compared
\* with date_iso of the target date
MarkerDate(tok) == IF tok = "m2" THEN "20240102" ELSE "20240101"
MarkerTime(tok) == IF tok = "m3" THEN "09:00" ELSE "21:55"

\* .replace("\r\n", "\n").replace("\r", "\n")
RECURSIVE NormalizeNewlines(_)
NormalizeNewlines(t) ==
    IF t = <<>> THEN <<>>
    ELSE IF Len(t) >= 2 /\ t[1] = "\r" /\ t[2] = "\n"
        THEN <<"\n">> \o NormalizeNewlines(SubSeq(t, 3, Len(t)))
    ELSE IF t[1] = "\r" THEN <<"\n">> \o NormalizeNewlines(Tail(t))
    ELSE <<t[1]>> \o NormalizeNewlines(Tail(t))

IsSpace(c) == c \in {" ", "\n", "\r"}

\* str.strip() of a transcript
RECURSIVE StripSpace(_)
StripSpace(t) ==
    IF t = <<>> THEN <<>>
    ELSE IF IsSpace(t[1]) THEN StripSpace(Tail(t))
    ELSE IF IsSpace(t[Len(t)]) THEN StripSpace(SubSeq(t, 1, Len(t) - 1))
    ELSE t

\* The positions of the matches of marker_pat in raw.
MarkerPositions(raw) == {i \in 1..Len(raw) : raw[i] \in MarkerTokens}

\* _slice_script_by_episode_marker
SliceScriptByEpisodeMarker(script_text, target, airtime) ==
    LET raw == NormalizeNewlines(script_text)
        matches == MarkerPositions(raw)
        hits == {i \in matches :
                    MarkerDate(raw[i]) = target /\ MarkerTime(raw[i]) = airtime}
        target_idx == CHOOSE i \in hits : \A j \in hits : i <= j
        later == {j \in matches : j > target_idx}
        end == IF later = {} THEN Len(raw) + 1
               ELSE CHOOSE j \in later : \A k \in later : j <= k
        sliced == StripSpace(SubSeq(raw, target_idx + 1, end - 1))
    IN  IF StripSpace(raw) = <<>> THEN <<>>
        ELSE IF matches = {} THEN StripSpace(raw)
        ELSE IF hits = {} THEN StripSpace(raw)
        ELSE IF sliced # <<>> THEN sliced
        ELSE StripSpace(raw)

\* _async_fetch_episode_detail slices the transcript for the episode's date
\* and the slot 21:55.
CallSlice ==
    /\ call.fn = "slice" /\ ~call.done
    /\ Return(SliceScriptByEpisodeMarker(call.arg.script_text, call.arg.date, "21:55"))

InitSlice ==
    /\ NoFiles /\ NotStarted
    /\ call \in {Calling("slice", [script_text |-> t, date |-> d]) :
                    t \in Scripts, d \in Dates}

NextSlice == CallSlice

\* The marker slicing on every transcript of up to MaxScriptLen tokens.
SpecSlice == InitSlice /\ [][NextSlice]_vars

\* ------------------------------------- _sanitize_script_text (analyzer.py)

\* A transcript as the sanitization sees it: a letter, a blank, a line feed,
\* the two angle brackets, a whole leaked attribute data-k='v', and the
\* angle brackets escaped once and twice.
MarkupTokens ==
    {"x", " ", "\n", "<", ">", "d", "&lt;", "&gt;", "&amp;lt;", "&amp;gt;"}
Markups == UNION {[1..n -> MarkupTokens] : n \in 0..MaxMarkupLen}

\* html.unescape replaces each character reference once.
UnescapeToken(c) ==
    IF c = "&amp;lt;" THEN "&lt;"
    ELSE IF c = "&amp;gt;" THEN "&gt;"
    ELSE IF c = "&lt;" THEN "<"
    ELSE IF c = "&gt;" THEN ">"
    ELSE c

HtmlUnescape(t) == [i \in 1..Len(t) |-> UnescapeToken(t[i])]

\* \s* from position k: the first position that holds no white space
RECURSIVE SkipSpace(_, _)
SkipSpace(t, k) == IF k <= Len(t) /\ IsSpace(t[k]) THEN SkipSpace(t, k + 1) ELSE k

\* re.sub of \bdata-[a-z-]+\s*=\s*('[^']*'|...)\s*(?:>|&gt;)? by "", from
\* position i on: the attribute must not follow a letter (\b); the white
\* space after it and one closing bracket, plain or escaped, go with it.
RECURSIVE RemoveDataAttrs(_, _)
RemoveDataAttrs(t, i) ==
    IF i > Len(t) THEN <<>>
    ELSE IF t[i] = "d" /\ (i = 1 \/ t[i - 1] # "x")
        THEN LET k == SkipSpace(t, i + 1)
             IN  IF k <= Len(t) /\ t[k] \in {">", "&gt;"}
                 THEN RemoveDataAttrs(t, k + 1)
                 ELSE RemoveDataAttrs(t, k)
    ELSE <<t[i]>> \o RemoveDataAttrs(t, i + 1)

\* re.sub of <[^>]+> by "", from position i on: a "<", at least one
\* character that is not ">", and the first ">" after them.
RECURSIVE RemoveTags(_, _)
RemoveTags(t, i) ==
    IF i > Len(t) THEN <<>>
    ELSE IF /\ t[i] = "<"
            /\ i + 1 <= Len(t) /\ t[i + 1] # ">"
            /\ \E j \in (i + 2)..Len(t) : t[j] = ">"
        THEN LET j == CHOOSE j \in (i + 2)..Len(t) :
                          t[j] = ">" /\ \A k \in (i + 2)..(j - 1) : t[k] # ">"
             IN  RemoveTags(t, j + 1)
    ELSE <<t[i]>> \o RemoveTags(t, i + 1)

\* re.sub of [ \t]+ by " "
RECURSIVE CollapseBlanks(_)
CollapseBlanks(t) ==
    IF t = <<>> THEN <<>>
    ELSE IF Len(t) >= 2 /\ t[1] = " " /\ t[2] = " " THEN CollapseBlanks(Tail(t))
    ELSE <<t[1]>> \o CollapseBlanks(Tail(t))

\* re.sub of \n{3,} by "\n\n"
RECURSIVE CollapseNewlines(_)
CollapseNewlines(t) ==
    IF t = <<>> THEN <<>>
    ELSE IF Len(t) >= 3 /\ t[1] = "\n" /\ t[2] = "\n" /\ t[3] = "\n"
        THEN CollapseNewlines(Tail(t))
    ELSE <<t[1]>> \o CollapseNewlines(Tail(t))

\* _sanitize_script_text; its removal of <mark> tags leaves these texts as
\* they are, since none of them holds the word mark.
SanitizeScriptText(script_text) ==
    LET text == HtmlUnescape(NormalizeNewlines(script_text))
    IN  IF StripSpace(text) = <<>> THEN <<>>
        ELSE StripSpace(CollapseNewlines(CollapseBlanks(
                 RemoveTags(RemoveDataAttrs(text, 1), 1))))

\* The transcript is sanitized, and what comes out is sanitized again.
CallSanitize ==
    /\ call.fn = "sanitize" /\ ~call.done
    /\ Return([once |-> SanitizeScriptText(call.arg),
               twice |-> SanitizeScriptText(SanitizeScriptText(call.arg))])

InitSanitize ==
    NoFiles /\ NotStarted /\ call \in {Calling("sanitize", t) : t \in Markups}

NextSanitize == CallSanitize

\* The sanitization on every transcript of up to MaxMarkupLen tokens.
SpecSanitize == InitSanitize /\ [][NextSanitize]_vars

\* ------------------------------------------------ scores (analyzer.py)

\* A score is an integer number of units, Units of them making 1.0: both
\* len(lemma) / 1.2 and the fourth decimal are whole numbers of units.
Units == 60000
TopScore == 8

\* round(score, 4): to the nearest multiple of 0.0001, a tie to the even one
Round4(s) ==
    LET q == s \div 6
        r == s % 6
    IN  IF r < 3 THEN 6 * q
        ELSE IF r > 3 THEN 6 * (q + 1)
        ELSE IF q % 2 = 0 THEN 6 * q ELSE 6 * (q + 1)

\* Mutant: a score on a threshold falls into the band below.
EstimateCefrAbove(score) ==
    IF score > 7 * Units THEN "C2"
    ELSE IF score > 6 * Units THEN "C1"
    ELSE IF score > 5 * Units THEN "B2"
    ELSE IF score > 4 * Units THEN "B1"
    ELSE IF score > 3 * Units THEN "A2"
    ELSE "A1"

\* _estimate_cefr
EstimateCefr(score) ==
    IF score >= 7 * Units THEN "C2"
    ELSE IF score >= 6 * Units THEN "C1"
    ELSE IF score >= 5 * Units THEN "B2"
    ELSE IF score >= 4 * Units THEN "B1"
    ELSE IF score >= 3 * Units THEN "A2"
    ELSE "A1"

\* Scores on, just below and between the whole numbers up to TopScore.
ScoreSamples ==
    UNION {{n * Units - 1, n * Units, n * Units + Units \div 2} : n \in 1..TopScore}

\* Two scores are banded, the first of them a second time.
CallEstimateCefr ==
    /\ call.fn = "cefr" /\ ~call.done
    /\ Return([a |-> EstimateCefr(call.arg.a),
               b |-> EstimateCefr(call.arg.b),
               again |-> EstimateCefr(call.arg.a)])

InitCefr ==
    /\ NoFiles /\ NotStarted
    /\ call \in {Calling("cefr", [a |-> s, b |-> t]) :
                    s \in ScoreSamples, t \in ScoreSamples}

NextCefr == CallEstimateCefr

\* The banding on every pair of sample scores.
SpecCefr == InitCefr /\ [][NextCefr]_vars

\* ----------------------------------------- analyze_vocabulary (analyzer.py)

\* Words are sequences of letters.
Tariff == <<"t", "a", "r", "i", "f", "f">>
Embargo == <<"e", "m", "b", "a", "r", "g", "o">>
Trade == <<"t", "r", "a", "d", "e">>
Tariffs == Tariff \o <<"s">>
Lemmas == {Tariff, Embargo, Trade, Tariffs}

\* The words the lexical database and the dictionary service know.
Lexicon == {Tariff, Embargo, Trade}

\* The letters of these words in the order Python compares strings by.
Alphabet == <<"a", "b", "d", "e", "f", "g", "i", "m", "o", "r", "s", "t", "y">>
Ord(c) == CHOOSE i \in 1..Len(Alphabet) : Alphabet[i] = c

\* a < b for two strings
RECURSIVE StrLess(_, _)
StrLess(a, b) ==
    IF b = <<>> THEN FALSE
    ELSE IF a = <<>> THEN TRUE
    ELSE IF a[1] = b[1] THEN StrLess(Tail(a), Tail(b))
    ELSE Ord(a[1]) < Ord(b[1])

EndsWith(s, suffix) ==
    /\ Len(s) >= Len(suffix)
    /\ SubSeq(s, Len(s) - Len(suffix) + 1, Len(s)) = suffix

\* s[:-n]
DropLast(s, n) == SubSeq(s, 1, Len(s) - n)

\* A candidate row of the extraction: the lemma as it occurs the first way
\* (the bare word, a noun, in sentence s1) or the second way (with an s, a
\* verb, in sentence s2).
Row(lemma, way) ==
    [word |-> IF way = 1 THEN lemma ELSE lemma \o <<"s">>,
     lemma |-> lemma,
     pos |-> IF way = 1 THEN "NOUN" ELSE "VERB",
     context_sentence |-> IF way = 1 THEN "s1" ELSE "s2"]

Rows == {Row(l, w) : l \in Lemmas, w \in 1..2}
RowLists == UNION {[1..n -> Rows] : n \in 0..MaxCandidates}

\* Mutant: a later row of a lemma takes the place of an earlier one.
RECURSIVE ByLemmaLast(_)
ByLemmaLast(candidates) ==
    IF candidates = <<>> THEN <<>>
    ELSE LET rest == Tail(candidates)
         IN  IF \E k \in 1..Len(rest) : rest[k].lemma = candidates[1].lemma
             THEN ByLemmaLast(rest)
             ELSE <<candidates[1]>> \o ByLemmaLast(rest)

\* by_lemma: the first row of each lemma, in the order of first occurrence
RECURSIVE ByLemma(_)
ByLemma(candidates) ==
    IF candidates = <<>> THEN <<>>
    ELSE LET n == Len(candidates)
             front == ByLemma(SubSeq(candidates, 1, n - 1))
             c == candidates[n]
         IN  IF \E k \in 1..Len(front) : front[k].lemma = c.lemma
             THEN front
             ELSE Append(front, c)

\* What the word frequency package knows: -log10 of the frequency of a
\* lemma, in units, and the lemmas of frequency 0.
NegLog10Frequency(lemma) ==
    IF lemma = Trade THEN 234001 ELSE 318001
ZeroFrequency(lemma) == lemma = Tariffs

Min(a, b) == IF a <= b THEN a ELSE b
Max(a, b) == IF a >= b THEN a ELSE b

\* _frequency_score; wf: the word frequency package is installed
FrequencyScore(lemma, wf) ==
    IF ~wf THEN Max(Units, Min(TopScore * Units, (Len(lemma) * Units * 5) \div 6))
    ELSE IF ZeroFrequency(lemma) THEN TopScore * Units
    ELSE Round4(NegLog10Frequency(lemma))

\* Mutant: the lemmas from 4.0 up are kept.
RetainedFromB1(score) == score >= 4 * Units

\* The test of the loop over by_lemma: score < 5.0 skips the lemma.
Retained(score) == ~(score < 5 * Units)

\* push of _lemma_candidates: an empty or already seen string is left out
Push(out, x) ==
    IF Lower(Strip(x)) = <<>> \/ \E k \in 1..Len(out) : out[k] = Lower(Strip(x))
    THEN out
    ELSE Append(out, Lower(Strip(x)))

RECURSIVE PushAll(_, _)
PushAll(out, xs) ==
    IF xs = <<>> THEN out ELSE PushAll(Push(out, xs[1]), Tail(xs))

\* The lexical database, when it works: wn.morphy gives the base form of a
\* word it knows with or without a final s, else None (here <<>>).
Morphy(s) ==
    IF s \in Lexicon THEN s
    ELSE IF EndsWith(s, <<"s">>) /\ DropLast(s, 1) \in Lexicon THEN DropLast(s, 1)
    ELSE <<>>

\* The strings the fallback morphology pushes for s, in order.
SuffixForms(s) ==
    (IF EndsWith(s, <<"i", "e", "s">>) /\ Len(s) > 4
        THEN <<DropLast(s, 3) \o <<"y">>>> ELSE <<>>)
    \o (IF EndsWith(s, <<"e", "s">>) /\ Len(s) > 3 THEN <<DropLast(s, 2)>> ELSE <<>>)
    \o (IF EndsWith(s, <<"s">>) /\ Len(s) > 3 THEN <<DropLast(s, 1)>> ELSE <<>>)
    \o (IF EndsWith(s, <<"i", "n", "g">>) /\ Len(s) > 5
        THEN <<DropLast(s, 3), DropLast(s, 3) \o <<"e">>>> ELSE <<>>)
    \o (IF EndsWith(s, <<"e", "d">>) /\ Len(s) > 4
        THEN <<DropLast(s, 2), DropLast(s, 1)>> ELSE <<>>)

\* The concatenation of F(s) over the strings s of a list.
RECURSIVE FlatMap(_, _)
FlatMap(F(_), list) ==
    IF list = <<>> THEN <<>> ELSE F(list[1]) \o FlatMap(F, Tail(list))

\* _lemma_candidates; wn: "absent" (not installed), "broken" (every call of
\* the database raises) or "ok".  morphy answers alike for the four parts of
\* speech, and an exception of it counts as None.
LemmaCandidates(word, lemma, wn) ==
    LET seeds == PushAll(<<>>, <<lemma, word>>)
        Base(s) == IF wn = "ok" THEN <<Morphy(s)>> ELSE <<>>
        normal == IF wn = "absent" THEN seeds ELSE PushAll(seeds, FlatMap(Base, seeds))
    IN  PushAll(normal, FlatMap(SuffixForms, normal))

\* A field value names the tier and the candidate it came from.
NoValue == [by |-> "", of |-> <<>>]
ValueOf(tier, cand) == [by |-> tier, of |-> cand]

NoFields ==
    [definition_en |-> NoValue, example_en |-> NoValue, translation_ko |-> NoValue,
     derivatives |-> NoValue, phonetic |-> NoValue]

\* What _get_wordnet_info returns: nothing when the database is absent, when
\* its calls raise (the exception is caught and counts as no synsets) or
\* when it has no synsets for the candidate; else the definition and, for
\* some words, an example, a Korean lemma name and derived forms.
WordnetInfo(cand, wn) ==
    IF wn = "ok" /\ cand \in Lexicon
    THEN [definition_en |-> ValueOf("wordnet", cand),
          example_en |-> IF cand # Tariff THEN ValueOf("wordnet", cand) ELSE NoValue,
          translation_ko |-> IF cand = Trade THEN ValueOf("wordnet", cand) ELSE NoValue,
          derivatives |-> IF cand # Embargo THEN ValueOf("wordnet", cand) ELSE NoValue]
    ELSE [definition_en |-> NoValue, example_en |-> NoValue,
          translation_ko |-> NoValue, derivatives |-> NoValue]

WordnetOutcome(cand, wn) ==
    IF wn = "absent" THEN "not_called"
    ELSE IF wn = "broken" THEN "raised"
    ELSE IF cand \in Lexicon THEN "found" ELSE "nothing"

\* The dictionary service of one run: "down" (every request raises),
\* "garbled" (the body is not JSON), "half_garbled" (the phonetics of the
\* body are well formed, its meanings are not), or "serving": not OK for a
\* word it does not know, else an entry, for one word with phonetics only.
Services == {"down", "garbled", "half_garbled", "serving"}

ServiceOutcome(service, cand) ==
    IF service = "down" THEN "network_error"
    ELSE IF service = "garbled" THEN "malformed"
    ELSE IF service = "half_garbled" THEN "malformed_meanings"
    ELSE IF cand \notin Lexicon THEN "not_ok"
    ELSE IF cand = Embargo THEN "phonetic_only"
    ELSE "entry"

\* The outcomes in which the request or the reading of its response fails.
FailedOutcomes == {"network_error", "not_ok", "malformed", "malformed_meanings"}

\* data of _get_free_dict_info after the try block: the fields assigned
\* before the exception, if any, stay.
FreeDictData(cand, outcome) ==
    [phonetic |-> IF outcome \in {"entry", "phonetic_only", "malformed_meanings"}
                  THEN ValueOf("api", cand) ELSE NoValue,
     definition_en |-> IF outcome = "entry" THEN ValueOf("api", cand) ELSE NoValue,
     example_en |-> IF outcome = "entry" THEN ValueOf("api", cand) ELSE NoValue]

\* Mutant: a later value takes the place of an earlier one.
FillLast(field, value) == IF value # NoValue THEN value ELSE field

\* if not field: field = value
Fill(field, value) == IF field = NoValue THEN value ELSE field

\* Mutant: nothing is found in the cache.
CacheHitNever(api_cache, cand) == FALSE

\* if lemma in api_cache: return api_cache[lemma]
CacheHit(api_cache, cand) == \E c \in api_cache : c.cand = cand
Cached(api_cache, cand) == (CHOOSE c \in api_cache : c.cand = cand).data

\* POS_KO_MAP.get(pos, "")
PosKo(pos) == IF pos = "NOUN" THEN "noun_ko" ELSE IF pos = "VERB" THEN "verb_ko" ELSE ""

B2PlusNewsWords == {Tariff, Embargo}

\* The row appended for a retained lemma.
VocabRow(base, score, fields) ==
    [word |-> base.word, lemma |-> base.lemma, pos |-> base.pos,
     pos_ko |-> PosKo(base.pos), phonetic |-> fields.phonetic,
     definition_en |-> fields.definition_en,
     translation_ko |-> fields.translation_ko, example_en |-> fields.example_en,
     context_sentence |-> base.context_sentence,
     cefr_level |-> EstimateCefr(score), frequency_score |-> Round4(score),
     is_b2_plus |-> base.lemma \in B2PlusNewsWords,
     derivatives |-> fields.derivatives]

\* The sort key (-frequency_score, lemma) puts a before b.
SortsBefore(a, b) ==
    \/ a.frequency_score > b.frequency_score
    \/ a.frequency_score = b.frequency_score /\ StrLess(a.lemma, b.lemma)

\* x put into a sorted list behind the rows that do not sort after it
RECURSIVE Insert(_, _)
Insert(sorted, x) ==
    IF sorted = <<>> THEN <<x>>
    ELSE IF SortsBefore(x, sorted[1]) THEN <<x>> \o sorted
    ELSE <<sorted[1]>> \o Insert(Tail(sorted), x)

\* Mutant: the rows stay in the order of by_lemma.
SortRowsNot(rows) == rows

\* results.sort(key=...): a stable sort
RECURSIVE SortRows(_)
SortRows(rows) ==
    IF rows = <<>> THEN <<>>
    ELSE Insert(SortRows(SubSeq(rows, 1, Len(rows) - 1)), rows[Len(rows)])

\* results[:top_n_words]
FirstN(rows, n) == SubSeq(rows, 1, Min(n, Len(rows)))

\* The arguments of one run: the candidate rows of the extraction, whether
\* the word frequency package is installed, the lexical database, the
\* dictionary service, and vocabulary.top_n_words.
AnalysisArgs ==
    {[candidates |-> c, wf |-> wf, wn |-> wn, service |-> s, top_n |-> n] :
        c \in RowLists, wf \in BOOLEAN, wn \in {"absent", "broken", "ok"},
        s \in Services, n \in 1..MaxTopN}

NoLookup == [tier |-> "", cand |-> <<>>, outcome |-> ""]

\* A lookup sent to a source on behalf of a lemma.
LookupOf(tier, lemma) == [tier |-> tier, lemma |-> lemma]

\* The row of by_lemma and the candidate the loops are at.
Base == an.by_lemma[an.i]
Cand == an.cands[an.j]

\* The locals of run number run before the loop over by_lemma; requests
\* lists the candidates the dictionary service was asked for in this run.
Started(by_lemma, run) ==
    [pc |-> "lemma", by_lemma |-> by_lemma, i |-> 1,
     score |-> 0, cands |-> <<>>, j |-> 0, fields |-> NoFields,
     api_cache |-> {}, results |-> <<>>, lookups |-> <<>>,
     last |-> NoLookup, requests |-> <<>>, run |-> run]

\* analyze_vocabulary after the extraction: by_lemma, api_cache, results.
StartAnalysis ==
    /\ call.fn = "analyze" /\ ~call.done
    /\ an.pc = "none"
    /\ an' = Started(ByLemma(call.arg.candidates), 1)
    /\ UNCHANGED <<process, call, session, request>>

\* The loop over by_lemma: a lemma scored below 5.0 is skipped.
DiscardLemma ==
    /\ an.pc = "lemma" /\ an.i <= Len(an.by_lemma)
    /\ LET score == FrequencyScore(Base.lemma, call.arg.wf)
       IN  /\ ~Retained(score)
           /\ an' = [an EXCEPT !.i = @ + 1, !.score = score]
    /\ UNCHANGED <<process, call, session, request>>

\* The loop over by_lemma: a lemma scored 5.0 or more gets its lookup
\* candidates; with a lexical database, morphy is asked for each seed.
RetainLemma ==
    /\ an.pc = "lemma" /\ an.i <= Len(an.by_lemma)
    /\ LET score == FrequencyScore(Base.lemma, call.arg.wf)
           seeds == PushAll(<<>>, <<Base.lemma, Base.word>>)
           asked == IF call.arg.wn = "absent" THEN <<>>
                    ELSE [k \in 1..Len(seeds) |-> LookupOf("morphy", Base.lemma)]
       IN  /\ Retained(score)
           /\ an' = [an EXCEPT !.score = score,
                               !.cands = LemmaCandidates(Base.word, Base.lemma, call.arg.wn),
                               !.j = 1,
                               !.fields = NoFields,
                               !.lookups = @ \o asked,
                               !.pc = "wordnet"]
    /\ UNCHANGED <<process, call, session, request>>

\* Tier 1 for the candidate: _get_wordnet_info, and tier 2, which has no
\* source (deps["PyDictionary"] is None) and leaves the definition as it is.
LookupWordnet ==
    /\ an.pc = "wordnet"
    /\ LET wn_info == WordnetInfo(Cand, call.arg.wn)
           asked == IF call.arg.wn = "absent" THEN <<>>
                    ELSE <<LookupOf("wordnet", Base.lemma)>>
       IN  an' = [an EXCEPT
                    !.fields.definition_en = Fill(@, wn_info.definition_en),
                    !.fields.example_en = Fill(@, wn_info.example_en),
                    !.fields.translation_ko = Fill(@, wn_info.translation_ko),
                    !.fields.derivatives = Fill(@, wn_info.derivatives),
                    !.lookups = @ \o asked,
                    !.last = [tier |-> "wordnet", cand |-> Cand,
                              outcome |-> WordnetOutcome(Cand, call.arg.wn)],
                    !.pc = "api"]
    /\ UNCHANGED <<process, call, session, request>>

\* Mutant: every candidate is processed, whatever the fields hold.
AfterCandidateAll(fields) ==
    IF an.j = Len(an.cands)
    THEN [pc |-> "row", j |-> an.j]
    ELSE [pc |-> "wordnet", j |-> an.j + 1]

\* The end of the loop body: break when the definition and one of example,
\* phonetic, translation are there, or after the last candidate.
AfterCandidate(fields) ==
    IF \/ /\ fields.definition_en # NoValue
          /\ \/ fields.example_en # NoValue
             \/ fields.phonetic # NoValue
             \/ fields.translation_ko # NoValue
       \/ an.j = Len(an.cands)
    THEN [pc |-> "row", j |-> an.j]
    ELSE [pc |-> "wordnet", j |-> an.j + 1]

\* The api_info of the candidate merged into the fields.
Merged(api_info) ==
    [an.fields EXCEPT !.phonetic = Fill(@, api_info.phonetic),
                      !.definition_en = Fill(@, api_info.definition_en),
                      !.example_en = Fill(@, api_info.example_en)]

\* Tier 3 for a candidate not in api_cache: the service is asked, and what
\* came of it is cached.
LookupFreeDict ==
    /\ an.pc = "api"
    /\ ~CacheHit(an.api_cache, Cand)
    /\ LET outcome == ServiceOutcome(call.arg.service, Cand)
           data == FreeDictData(Cand, outcome)
           then == AfterCandidate(Merged(data))
       IN  an' = [an EXCEPT
                    !.fields = Merged(data),
                    !.api_cache = @ \cup {[cand |-> Cand, data |-> data]},
                    !.lookups = Append(@, LookupOf("api", Base.lemma)),
                    !.requests = Append(@, Cand),
                    !.last = [tier |-> "api", cand |-> Cand, outcome |-> outcome],
                    !.pc = then.pc,
                    !.j = then.j]
    /\ UNCHANGED <<process, call, session, request>>

\* Tier 3 for a candidate in api_cache: no request.
CachedFreeDict ==
    /\ an.pc = "api"
    /\ CacheHit(an.api_cache, Cand)
    /\ LET data == Cached(an.api_cache, Cand)
           then == AfterCandidate(Merged(data))
       IN  an' = [an EXCEPT
                    !.fields = Merged(data),
                    !.last = [tier |-> "api", cand |-> Cand, outcome |-> "cached"],
                    !.pc = then.pc,
                    !.j = then.j]
    /\ UNCHANGED <<process, call, session, request>>

\* results.append(row)
AppendRow ==
    /\ an.pc = "row"
    /\ an' = [an EXCEPT !.results = Append(@, VocabRow(Base, an.score, an.fields)),
                        !.i = @ + 1,
                        !.pc = "lemma"]
    /\ UNCHANGED <<process, call, session, request>>

\* After the loop: sort, cut, return.
ReturnDataset ==
    /\ an.pc = "lemma" /\ an.i > Len(an.by_lemma)
    /\ call' = [call EXCEPT !.done = TRUE,
                            !.out = FirstN(SortRows(an.results), call.arg.top_n)]
    /\ an' = [an EXCEPT !.pc = "returned"]
    /\ UNCHANGED <<process, session, request>>

\* analyze_vocabulary is called once more with the same arguments: its
\* api_cache and its results are new.
AnalyzeAgain ==
    /\ call.fn = "analyze" /\ call.done
    /\ an.pc = "returned"
    /\ an.run < MaxAnalyses
    /\ call' = [call EXCEPT !.done = FALSE, !.out = <<>>]
    /\ an' = Started(ByLemma(call.arg.candidates), an.run + 1)
    /\ UNCHANGED <<process, session, request>>

InitVocab ==
    NoFiles /\ NotStarted /\ call \in {Calling("analyze", a) : a \in AnalysisArgs}

NextVocab ==
    \/ StartAnalysis
    \/ DiscardLemma
    \/ RetainLemma
    \/ LookupWordnet
    \/ LookupFreeDict
    \/ CachedFreeDict
    \/ AppendRow
    \/ ReturnDataset

\* analyze_vocabulary on every list of up to MaxCandidates candidate rows.
SpecVocab == InitVocab /\ [][NextVocab]_vars

NextVocabAgain == NextVocab \/ AnalyzeAgain

\* The same, up to MaxAnalyses times in a row.
SpecVocabAgain == InitVocab /\ [][NextVocabAgain]_vars

\* ------------------------------ _async_fetch_episode_detail (crawler.py)

\* An item of a JSON payload: its broadcast_date, whether its title names
\* the slot ("21:55" or "2155"), its content and its media_info.media_url.
\* The only string of an item with ".mp3" or ".mp4" in it is its media_url,
\* and no title holds "10 PM" or "NEWS".
JsonItem(d, script, media) ==
    [broadcast_date |-> d, slot |-> script,
     content |-> IF script THEN <<"x", "x">> ELSE <<>>,
     media_url |-> IF media THEN "u3" ELSE ""]

\* The items with a script, a media URL or both, of either date.
JsonItems ==
    {JsonItem(d, script, media) :
        d \in Dates, script \in BOOLEAN, media \in BOOLEAN} \ {JsonItem(d, FALSE, FALSE) : d \in Dates}

NoItem == [broadcast_date |-> "", slot |-> FALSE, content |-> <<>>, media_url |-> ""]

\* The URLs of intercepted audio responses.
AudioUrls == {"u1", "u2"}

\* What the target row of the episode list UI and the nodes of a content
\* selector read as; none of the texts holds a tag.
UiTexts == {<<>>, <<"x">>}
PageTexts == {<<>>, <<"\n">>, <<"m1", "x", "\n", "\n", "x">>}

\* " ".join(text.split()), after the leading and trailing whitespace is gone
RECURSIVE JoinSplit(_)
JoinSplit(t) ==
    IF t = <<>> THEN <<>>
    ELSE IF ~IsSpace(t[1]) THEN <<t[1]>> \o JoinSplit(Tail(t))
    ELSE IF Len(t) >= 2 /\ IsSpace(t[2]) THEN JoinSplit(Tail(t))
    ELSE <<" ">> \o JoinSplit(Tail(t))

\* _normalize_space
NormalizeSpace(t) == JoinSplit(StripSpace(t))

\* _pick_longest_text: the first of the longest normalized texts, "" when
\* all are empty
PickLongestText(items) ==
    LET cleaned == [k \in 1..Len(items) |-> NormalizeSpace(items[k])]
        full == {k \in 1..Len(items) : cleaned[k] # <<>>}
    IN  IF full = {} THEN <<>>
        ELSE cleaned[CHOOSE k \in full :
                        \A n \in full : \/ Len(cleaned[n]) < Len(cleaned[k])
                                        \/ Len(cleaned[n]) = Len(cleaned[k]) /\ k <= n]

\* score of _pick_item_for_target
PickScore(it, date) ==
    (IF it.broadcast_date = date THEN 6 ELSE 0)
    + (IF it.slot THEN 5 ELSE 0)
    + (IF StripSpace(it.content) # <<>> THEN 1 ELSE 0)

\* score of _extract_script_and_media_from_api_cache
CacheScore(it, date) ==
    (IF it.broadcast_date = date THEN 5 ELSE 0)
    + (IF it.slot THEN 4 ELSE 0)
    + (IF StripSpace(it.content) # <<>> THEN 2 ELSE 0)
    + (IF it.media_url # "" THEN 1 ELSE 0)

\* _extract_script_and_media_from_api_cache: the first item of the highest
\* score above 0
ExtractScriptAndMediaFromApiCache(api_json_cache, date) ==
    LET scored == {k \in 1..Len(api_json_cache) : CacheScore(api_json_cache[k], date) > 0}
        best == CHOOSE k \in scored :
                    \A n \in scored :
                        \/ CacheScore(api_json_cache[n], date) < CacheScore(api_json_cache[k], date)
                        \/ /\ CacheScore(api_json_cache[n], date) = CacheScore(api_json_cache[k], date)
                           /\ k <= n
    IN  IF scored = {} THEN [script |-> <<>>, media |-> ""]
        ELSE [script |-> StripSpace(api_json_cache[best].content),
              media |-> api_json_cache[best].media_url]

\* The post-processing of a non-empty transcript: tags (there are none in
\* these texts), strip, the block of the target episode.
PostProcess(script_text, date) ==
    IF script_text = <<>> THEN <<>>
    ELSE SliceScriptByEpisodeMarker(StripSpace(script_text), date, "21:55")

\* Mutant: the intercepted JSON is searched whatever the page gave.
CacheWantedAlways(script_text) == TRUE

\* if not script_text: the JSON fallback
CacheWanted(script_text) == script_text = <<>>

\* The episode handed to fetch_episode_detail.
DetailArgs == {[date |-> d, prefetched |-> p] : d \in Dates, p \in {"", "u0"}}

InSession == call.fn = "detail" /\ ~call.done

\* The browser is launched, handle_response is registered, page.goto is
\* under way.
BeginSession ==
    /\ InSession
    /\ session.pc = "none"
    /\ session' = [NoSession EXCEPT !.pc = "page", !.trace = <<"session">>]
    /\ UNCHANGED <<process, call, an, request>>

\* The responses reach handle_response while the browser is open.
Listening == InSession /\ session.pc \in {"page", "list"} /\ session.arrived < MaxResponses

\* handle_response on a response with ".mp3" in its URL or an audio
\* content type.
HandleAudioResponse(url) ==
    /\ Listening
    /\ session' = [session EXCEPT !.mp3_url = url, !.arrived = @ + 1]
    /\ UNCHANGED <<process, call, an, request>>

\* handle_response on a JSON response of the site whose body is a dict.
HandleJsonResponse(item) ==
    /\ Listening
    /\ session' = [session EXCEPT
                     !.api_json_cache = Append(@, item),
                     !.mp3_url = IF @ = "" /\ item.media_url # "" THEN item.media_url ELSE @,
                     !.arrived = @ + 1]
    /\ UNCHANGED <<process, call, an, request>>

\* handle_response on any other response, or on a body that is no dict or
\* cannot be read.
HandleOtherResponse ==
    /\ Listening
    /\ session' = [session EXCEPT !.arrived = @ + 1]
    /\ UNCHANGED <<process, call, an, request>>

\* The calls of the site's API from the page: the item picked for the target
\* date, if any, and the payload of the detail endpoint for it.
CallPageApi(chosen, ep_detail) ==
    /\ InSession
    /\ session.pc = "page"
    /\ chosen = NoItem \/ PickScore(chosen, call.arg.date) > 0
    /\ ep_detail \in {NoItem, chosen, [chosen EXCEPT !.content = <<"x", "x">>]}
    /\ LET with_item == IF StripSpace(chosen.content) # <<>>
                        THEN Append(session.api_json_cache, chosen)
                        ELSE session.api_json_cache
       IN  session' = [session EXCEPT
                         !.mp3_url = IF @ = "" THEN chosen.media_url ELSE @,
                         !.api_json_cache = IF ep_detail # NoItem
                                            THEN Append(with_item, ep_detail)
                                            ELSE with_item,
                         !.pc = "list"]
    /\ UNCHANGED <<process, call, an, request>>

\* The target row is clicked and read, the player iframe is looked for, the
\* content selectors are read, the browser is closed.
ReadPage(ui, text, iframe) ==
    /\ InSession
    /\ session.pc = "list"
    /\ session' = [session EXCEPT
                     !.iframe_src = iframe,
                     !.target_ui_script = ui,
                     !.collected = (IF ui # <<>> THEN <<ui>> ELSE <<>>)
                                   \o (IF text # <<>> THEN <<PickLongestText(<<text>>)>>
                                       ELSE <<>>),
                     !.pc = "closed"]
    /\ UNCHANGED <<process, call, an, request>>

\* The page gave a transcript.
TranscriptFromPage ==
    /\ InSession
    /\ session.pc = "closed"
    /\ ~CacheWanted(PickLongestText(session.collected))
    /\ session' = [session EXCEPT
                     !.script_text = PostProcess(PickLongestText(session.collected),
                                                 call.arg.date),
                     !.pc = "media"]
    /\ UNCHANGED <<process, call, an, request>>

\* The JSON fallback for the transcript and the media URL.
TranscriptFromCache ==
    /\ InSession
    /\ session.pc = "closed"
    /\ CacheWanted(PickLongestText(session.collected))
    /\ LET api == ExtractScriptAndMediaFromApiCache(session.api_json_cache, call.arg.date)
           script_text == IF api.script # <<>> THEN api.script
                          ELSE PickLongestText(session.collected)
       IN  session' = [session EXCEPT
                         !.script_text = PostProcess(script_text, call.arg.date),
                         !.mp3_url = IF api.media # "" /\ @ = "" THEN api.media ELSE @,
                         !.trace = Append(@, "cache"),
                         !.pc = "media"]
    /\ UNCHANGED <<process, call, an, request>>

\* enriched, as the session returns it.
Enriched(s) ==
    [script_text |-> s.script_text, mp3_url |-> s.mp3_url,
     iframe_src |-> s.iframe_src, error |-> ""]

\* The session is left with after.
Leave(after, out) ==
    /\ session' = [after EXCEPT !.pc = "returned"]
    /\ call' = [call EXCEPT !.done = TRUE, !.out = out]
    /\ UNCHANGED <<process, an, request>>

IframeWanted == session.mp3_url = "" /\ session.iframe_src # ""

\* No media URL yet and an iframe: its page is fetched and searched.
ResolveMediaFromIframe(url) ==
    /\ InSession
    /\ session.pc = "media"
    /\ IframeWanted
    /\ LET after == [session EXCEPT !.mp3_url = url, !.trace = Append(@, "iframe_http")]
       IN  Leave(after, Enriched(after))

\* The same, and the request fails: a warning.
IframeFetchFails ==
    /\ InSession
    /\ session.pc = "media"
    /\ IframeWanted
    /\ LET after == [session EXCEPT !.trace = @ \o <<"iframe_http", "warning">>]
       IN  Leave(after, Enriched(after))

ReturnSession ==
    /\ InSession
    /\ session.pc = "media"
    /\ ~IframeWanted
    /\ Leave(session, Enriched(session))

\* fetch_episode_detail: the session raises (the import of the automation
\* package, the launch, the navigation, a call of the page).
SessionRaises ==
    /\ InSession
    /\ session.pc \in {"none", "page", "list"}
    /\ session' = [session EXCEPT !.pc = "fallback", !.trace = Append(@, "failed")]
    /\ UNCHANGED <<process, call, an, request>>

\* The fallback with a prefetched media URL.
FallbackPrefetched ==
    /\ InSession
    /\ session.pc = "fallback"
    /\ call.arg.prefetched # ""
    /\ Leave(session, [script_text |-> <<>>, mp3_url |-> call.arg.prefetched,
                       iframe_src |-> "", error |-> ""])

\* The fallback without one: _resolve_kollus_media fetches the static page.
FallbackStatic(url) ==
    /\ InSession
    /\ session.pc = "fallback"
    /\ call.arg.prefetched = ""
    /\ Leave([session EXCEPT !.trace = Append(@, "static_http")],
             [script_text |-> <<>>, mp3_url |-> url, iframe_src |-> "", error |-> ""])

\* The same, and the static page cannot be fetched: the exception leaves
\* fetch_episode_detail.
FallbackStaticFails ==
    /\ InSession
    /\ session.pc = "fallback"
    /\ call.arg.prefetched = ""
    /\ Leave([session EXCEPT !.trace = Append(@, "static_http")],
             [script_text |-> <<>>, mp3_url |-> "", iframe_src |-> "",
              error |-> "RuntimeError"])

InitDetail ==
    NoFiles /\ NotStarted /\ call \in {Calling("detail", a) : a \in DetailArgs}

NextDetail ==
    \/ BeginSession
    \/ \E url \in AudioUrls : HandleAudioResponse(url)
    \/ \E item \in JsonItems : HandleJsonResponse(item)
    \/ HandleOtherResponse
    \/ \E chosen, ep_detail \in JsonItems \cup {NoItem} : CallPageApi(chosen, ep_detail)
    \/ \E ui \in UiTexts, text \in PageTexts, iframe \in {"", "i1"} :
          ReadPage(ui, text, iframe)
    \/ TranscriptFromPage
    \/ TranscriptFromCache
    \/ \E url \in {"", "u5"} : ResolveMediaFromIframe(url)
    \/ IframeFetchFails
    \/ ReturnSession
    \/ SessionRaises
    \/ FallbackPrefetched
    \/ \E url \in {"", "u6"} : FallbackStatic(url)
    \/ FallbackStaticFails

\* fetch_episode_detail on one episode, the responses of the driven session
\* arriving in any order.
SpecDetail == InitDetail /\ [][NextDetail]_vars

\* ------------------------------------- candidate extraction (analyzer.py)

\* vocabulary.min_word_length
MinWordLength == 4

\* A token of the transcript: its text, the lemma the tagger gives it, and
\* what it is: a common noun, a proper noun, a stopword, a word with a hyphen
\* (not alphabetic), or a number.
Token(word, lemma, kind) == [word |-> word, lemma |-> lemma, kind |-> kind]

Tokens ==
    {Token(Tariffs, Tariff, "noun"), Token(Tariff, Tariff, "noun"),
     Token(Embargo, Embargo, "propn"), Token(Trade, Trade, "stop"),
     Token(Tariff \o <<"-">> \o Trade, Tariff \o <<"-">> \o Trade, "hyphenated"),
     Token(<<"2", "0", "2", "4">>, <<"2", "0", "2", "4">>, "number")}

\* Transcripts of one sentence.
TokenLists == UNION {[1..n -> Tokens] : n \in 0..MaxTokens}

\* The tagger: "absent" (the package cannot be imported), "no_model" (its
\* model cannot be loaded) or "ok".
Taggers == {"absent", "no_model", "ok"}

\* _extract_candidates_spacy: no rows without the tagger; else the tokens
\* that are alphabetic, no proper noun, no stopword and long enough.
ExtractCandidatesSpacy(script_text, tagger) ==
    LET Keep(tok) == /\ tok.kind \notin {"hyphenated", "number"}
                     /\ tok.kind # "propn"
                     /\ tok.kind # "stop"
                     /\ Len(Lower(Strip(tok.lemma))) >= MinWordLength
        RowOf(tok) == [word |-> tok.word, lemma |-> Lower(Strip(tok.lemma)),
                       pos |-> "NOUN", context_sentence |-> "s1"]
        kept == SelectSeq(script_text, Keep)
    IN  IF tagger # "ok" THEN <<>> ELSE [k \in 1..Len(kept) |-> RowOf(kept[k])]

\* _extract_candidates_regex: the matches of \b[a-zA-Z][a-zA-Z'-]+\b that
\* are long enough, the lemma being the lowercased match.
ExtractCandidatesRegex(script_text) ==
    LET Keep(tok) == /\ tok.kind # "number"
                     /\ Len(tok.word) >= 2
                     /\ Len(Lower(tok.word)) >= MinWordLength
        RowOf(tok) == [word |-> tok.word, lemma |-> Lower(tok.word),
                       pos |-> "", context_sentence |-> "s1"]
        kept == SelectSeq(script_text, Keep)
    IN  [k \in 1..Len(kept) |-> RowOf(kept[k])]

\* Which tokenizer the candidates of analyze_vocabulary come from.
TokenizerUsed(script_text, tagger) ==
    IF ExtractCandidatesSpacy(script_text, tagger) # <<>> THEN "spacy" ELSE "regex"

\* candidates of analyze_vocabulary: those of the tagger, and when there are
\* none, those of the regex
ExtractCandidates(script_text, tagger) ==
    IF TokenizerUsed(script_text, tagger) = "spacy"
    THEN ExtractCandidatesSpacy(script_text, tagger)
    ELSE ExtractCandidatesRegex(script_text)

TextArgs ==
    {[script_text |-> t, tagger |-> g, wf |-> wf, wn |-> wn,
      service |-> "serving", top_n |-> MaxTopN] :
        t \in TokenLists, g \in Taggers, wf \in BOOLEAN, wn \in {"absent", "ok"}}

\* analyze_vocabulary up to the loop over by_lemma, the extraction included.
ExtractAndStart ==
    /\ call.fn = "analyze_text" /\ ~call.done
    /\ an.pc = "none"
    /\ an' = Started(ByLemma(ExtractCandidates(call.arg.script_text, call.arg.tagger)), 1)
    /\ UNCHANGED <<process, call, session, request>>

InitText ==
    NoFiles /\ NotStarted /\ call \in {Calling("analyze_text", a) : a \in TextArgs}

NextText ==
    \/ ExtractAndStart
    \/ DiscardLemma
    \/ RetainLemma
    \/ LookupWordnet
    \/ LookupFreeDict
    \/ CachedFreeDict
    \/ AppendRow
    \/ ReturnDataset

\* analyze_vocabulary on every transcript of up to MaxTokens tokens.
SpecText == InitText /\ [][NextText]_vars


\* ------------------------------------------------------- _request_with_retry
\* One call of _request_with_retry(session, method, url, cfg) on its own. An
\* attempt is one session.request with the configured timeout, so it ends:
\* with a response, or with an exception. raise_for_status turns a response
\* with status 400 and above into an exception.

RetryCounts == 0..MaxRetries
Methods == {"GET", "POST"}
Statuses == {200, 404, 503}
Exceptions == {"ConnectionError", "Timeout"}

RetryArgs == [method : Methods, retry_count : RetryCounts]

\* The exception of an attempt answered with status, "" when there is none.
RaiseForStatus(status) == IF status >= 400 THEN "HTTPError" ELSE ""

SleepsAfterAlways(attempt, retry_count) == TRUE

\* Whether the loop waits after the failure of this attempt.
SleepsAfter(attempt, retry_count) == attempt < retry_count

InRequest(at) ==
    /\ call.fn = "_request_with_retry"
    /\ ~call.done
    /\ request.pc = at

\* Entry: the settings are read, the headers merged, last_exc = None.
BeginRequest ==
    /\ InRequest("none")
    /\ request' = [pc |-> "for", attempt |-> 0, last_exc |-> "None",
                   events |-> <<>>]
    /\ UNCHANGED <<process, call, an, session>>

\* for attempt in range(1, retry_count + 1): the next attempt begins.
NextAttempt ==
    /\ InRequest("for")
    /\ request.attempt < call.arg.retry_count
    /\ request' = [request EXCEPT !.pc = "try", !.attempt = @ + 1]
    /\ UNCHANGED <<process, call, an, session>>

\* The attempt is answered with status: the response is returned, or
\* raise_for_status raises and the failure is handled.
AfterFailure(exc) ==
    [request EXCEPT
        !.last_exc = exc,
        !.events = @ \o <<"request", "warning">>,
        !.pc = IF SleepsAfter(request.attempt, call.arg.retry_count)
               THEN "sleep" ELSE "for"]

AttemptAnswered(status) ==
    /\ InRequest("try")
    /\ IF RaiseForStatus(status) = ""
       THEN /\ request' = [request EXCEPT !.events = @ \o <<"request">>,
                                          !.pc = "returned"]
            /\ call' = [call EXCEPT
                   !.done = TRUE,
                   !.out = [status |-> status, attempt |-> request.attempt]]
       ELSE /\ request' = AfterFailure(RaiseForStatus(status))
            /\ UNCHANGED call
    /\ UNCHANGED <<process, an, session>>

\* The attempt ends without a response.
AttemptRaises(exc) ==
    /\ InRequest("try")
    /\ request' = AfterFailure(exc)
    /\ UNCHANGED <<process, call, an, session>>

\* sleep(retry_delay) ends.
Sleep ==
    /\ InRequest("sleep")
    /\ request' = [request EXCEPT !.events = @ \o <<"sleep">>, !.pc = "for"]
    /\ UNCHANGED <<process, call, an, session>>

\* The loop is over: RuntimeError from last_exc.
RaiseAfterRetries ==
    /\ InRequest("for")
    /\ request.attempt >= call.arg.retry_count
    /\ request' = [request EXCEPT !.pc = "raised"]
    /\ call' = [call EXCEPT
           !.done = TRUE,
           !.out = [raised |-> "RuntimeError: Request failed after retries",
                    cause |-> request.last_exc]]
    /\ UNCHANGED <<process, an, session>>

InitRetry ==
    /\ NoFiles
    /\ NotStarted
    /\ \E arg \in RetryArgs : call = Calling("_request_with_retry", arg)

NextRetry ==
    \/ BeginRequest
    \/ NextAttempt
    \/ \E status \in Statuses : AttemptAnswered(status)
    \/ \E exc \in Exceptions : AttemptRaises(exc)
    \/ Sleep
    \/ RaiseAfterRetries

\* Every attempt and every wait end (timeout, retry_delay), and the
\* interpreter goes on.
SpecRetry == InitRetry /\ [][NextRetry]_vars /\ WF_vars(NextRetry)


\* ------------------------------------------ handle_response as a coroutine
\* handle_response is an async callback: at `await response.json()` it gives
\* way to the session, which goes on while the body is fetched from the
\* browser. session.handlers holds the calls that reached the await, in the
\* order of their responses: [data, at], at "await" while the body is being
\* fetched, "appended" after api_json_cache.append, "passed" after the
\* `except Exception: pass`.

\* A JSON response of the site arrives: the handler reaches the await.
InterceptJsonResponse(item) ==
    /\ Listening
    /\ session' = [session EXCEPT
                     !.handlers = Append(@, [data |-> item, at |-> "await"]),
                     !.arrived = @ + 1]
    /\ UNCHANGED <<process, call, an, request>>

\* The body arrives while the browser is open: the dict is appended.
JsonBodyRead(k) ==
    /\ InSession
    /\ session.pc \in {"page", "list"}
    /\ k \in 1..Len(session.handlers)
    /\ session.handlers[k].at = "await"
    /\ LET item == session.handlers[k].data
       IN  session' = [session EXCEPT
                         !.api_json_cache = Append(@, item),
                         !.mp3_url = IF @ = "" /\ item.media_url # ""
                                     THEN item.media_url ELSE @,
                         !.handlers[k].at = "appended"]
    /\ UNCHANGED <<process, call, an, request>>

\* The body cannot be fetched (the page went on to another document, the
\* browser is closed): response.json() raises in the handler, which passes.
JsonBodyFails(k) ==
    /\ InSession
    /\ session.pc \in {"page", "list", "closed"}
    /\ k \in 1..Len(session.handlers)
    /\ session.handlers[k].at = "await"
    /\ session' = [session EXCEPT !.handlers[k].at = "passed"]
    /\ UNCHANGED <<process, call, an, request>>

NextIntercept ==
    \/ NextDetail
    \/ \E d \in Dates : InterceptJsonResponse(JsonItem(d, TRUE, TRUE))
    \/ \E k \in 1..MaxResponses : JsonBodyRead(k)
    \/ \E k \in 1..MaxResponses : JsonBodyFails(k)

SpecIntercept == InitDetail /\ [][NextIntercept]_vars

\* ======================================================================
\* Properties
\* ======================================================================

\* A step in which a download_episode call returns its bundle.
Returns(status) ==
    pc = "download" /\ pc' = "crawled" /\ episode'.status = status

\* C1: a download_episode call for a key whose ledger entry is success and
\* whose three artifacts are intact returns status "skipped" and changes
\* neither the three artifact files nor the ledger document; this holds for
\* every call, however many came before.
C1_SkipLeavesFilesUnchanged ==
    [][(pc = "download" /\ RecordedSuccess(CallDate) /\ ArtifactsIntact(CallDate))
        => /\ Returns("skipped")
           /\ txt' = txt /\ mp3' = mp3 /\ meta' = meta /\ ledger' = ledger]_vars

\* C1 witness: a second call returned "skipped" for the key the first call
\* recorded.
C1_Witness ==
    /\ pc = "crawled" /\ episode.status = "skipped" /\ runs = 2
    /\ before.recorded /\ before.intact
    /\ ledger.doc[Key(episode.txt_path)].updated_at = 1

\* C2: whenever download_episode returns status "success", the three
\* artifact files of the key exist, are not empty, and the transcript does
\* not start with the placeholder (read here letter for letter, the reading
\* that asks least of the program).
C2_SuccessBundleIsIntact ==
    (pc = "crawled" /\ episode.status = "success")
        => /\ txt[episode.txt_path].exists
           /\ txt[episode.txt_path].text # <<>>
           /\ ~StartsWith(txt[episode.txt_path].text, Sentinel)
           /\ mp3[episode.txt_path].exists /\ mp3[episode.txt_path].got > 0
           /\ meta[episode.txt_path].exists /\ ~meta[episode.txt_path].empty

C4_SkippedOnlyOnCompleteArtifacts ==
    (pc = "crawled" /\ episode.status = "skipped") => complete[episode.txt_path]

\* The events the step appends to trace.
NewEvents == {trace'[i] : i \in (Len(trace) + 1)..Len(trace')}

\* C5: in a crawl for a target date whose ledger entry is success with
\* intact artifacts, the ledger is read first and no network call precedes
\* the "skipped" result.
C5_NoNetworkBeforeSkipped ==
    (/\ pc = "crawled" /\ episode.status = "skipped"
     /\ episode.txt_path = target_date /\ before.recorded /\ before.intact)
        => /\ trace[1] = "ledger_read"
           /\ \A i \in 1..Len(trace) : trace[i] \notin NetworkEvents

\* C6: a call that is not on the skipped path and whose transcript text or
\* media URL is empty fails with a ValueError before any write: the three
\* artifact files and the ledger are unchanged and no request is sent.
C6_EmptyInputFailsBeforeAnyWrite ==
    [][(/\ pc = "download"
        /\ ~(RecordedSuccess(CallDate) /\ ArtifactsIntact(CallDate))
        /\ (episode.script_text = <<>> \/ episode.mp3_url = ""))
        => /\ pc' = "exited" /\ exit' = 1
           /\ err' \in {"ValueError: episode.script_text is empty",
                        "ValueError: episode.mp3_url is empty"}
           /\ txt' = txt /\ mp3' = mp3 /\ meta' = meta /\ ledger' = ledger
           /\ NewEvents \cap NetworkEvents = {}]_vars

\* C6 witness: a call with a transcript and no media URL, for a key recorded
\* as success whose artifacts were damaged, has failed.
C6_Witness ==
    /\ pc = "exited" /\ err = "ValueError: episode.mp3_url is empty"
    /\ episode.script_text # <<>> /\ before.recorded /\ ~before.intact

\* C7: the ledger is written atomically, so that whatever interrupts a
\* write, every entry recorded before it is still read from the file by the
\* next run.
C7_LedgerWriteIsAtomic ==
    [][\A d \in Dates : RecordedSuccess(d) =>
           EnsureDownloadLog(ledger')[Key(d)].status = "success"]_vars

\* The entry of key k as the ledger file holds it.
EntryOf(lf, k) == IF lf.kind = "doc" THEN lf.doc[k] ELSE NoEntry

\* C8: a successful acquisition for a key replaces that key's entry by the
\* new success record and leaves the entry of every other key as it was.
C8_OtherEntriesUntouched ==
    [][Returns("success") =>
        /\ ledger'.kind = "doc"
        /\ \A d \in Dates :
              ledger'.doc[Key(d)] =
                  IF d = CallDate
                  THEN [status |-> "success", title |-> episode.title,
                        updated_at |-> runs]
                  ELSE EntryOf(ledger, Key(d))]_vars

\* C8 witness: a success was recorded for one key while the other key held
\* an older success entry, which is still there.
C8_Witness ==
    /\ pc = "crawled" /\ episode.status = "success"
    /\ \E d \in Dates \ {episode.txt_path} :
          /\ ledger.doc[Key(d)].status = "success"
          /\ ledger.doc[Key(d)].updated_at < runs

\* C9: when the static fallback page supplied the media URL (and so no
\* transcript), the crawl stage does not end the run with a failure because
\* the transcript is empty.
C9_StaticFallbackIsNotAnError ==
    (/\ pc = "exited" /\ stages = <<"crawl">>
     /\ \E i \in 1..Len(trace) : trace[i] = "http_kollus"
     /\ episode.mp3_url # "" /\ episode.script_text = <<>>)
        => ~(exit = 1 /\ err = "ValueError: episode.script_text is empty")

\* The stage sequences --step st allows.
AllowedStages(st) ==
    IF st = "all"
    THEN {<<"crawl">>, <<"crawl", "analyze">>, <<"crawl", "analyze", "report">>}
    ELSE {<<st>>}

\* C10: the stages of a run start in the order crawl, analyze, report, a
\* stage only after the one before it completed without error; a failing
\* stage (also: no candidate for the target date) ends the run with status
\* 1 and no later stage starts; a run ends with status 0 only after its last
\* stage; under --step only that stage runs.
C10_StagesRunInOrder ==
    [][/\ pc' # "idle" => stages' \in AllowedStages(step')
       /\ (pc \notin {"idle", "exited"} /\ stages' # stages) =>
              /\ pc \in {"crawled", "analyze"}
              /\ pc' \notin {"exited", "idle"} /\ err' = ""
       /\ (pc = "select" /\ \A i \in 1..Len(episodes) :
                                episodes[i].date_str # target_date) =>
              pc' = "exited" /\ exit' = 1 /\ stages' = stages
       /\ (pc' = "exited" /\ err' \notin {"", "interrupted"}) => exit' = 1
       /\ (pc' = "exited" /\ exit' = 0) =>
              /\ err' = ""
              /\ stages' = IF step = "all" THEN <<"crawl", "analyze", "report">>
                           ELSE <<step>>
       /\ pc = "exited" => pc' = "idle"]_vars

\* C10 witness: a full run went through its three stages and ended with
\* status 0.
C10_Witness ==
    /\ pc = "exited" /\ exit = 0 /\ step = "all"
    /\ stages = <<"crawl", "analyze", "report">>

\* C11: when no candidate is dated D-1 the list-stage selector returns the
\* first candidate of the list, and None only for the empty list; when no
\* candidate is dated as the target date the orchestration-stage selector
\* returns None and the run exits with status 1.
C11_SelectorsFallBackDifferently ==
    (call.fn = "select" /\ call.done) =>
        LET eps == call.arg.episodes
            NoneOn(d) == \A i \in 1..Len(eps) : eps[i].date_str # d
        IN  /\ NoneOn(call.arg.today) =>
                  call.out.list_stage = (IF eps = <<>> THEN NoEpisode ELSE eps[1])
            /\ NoneOn(call.arg.target_date) =>
                  call.out.orchestration = NoEpisode /\ call.out.exit = 1

\* C11 witness: on one list of two candidates, none of them dated D-1 (which
\* is also the target date), the list stage chose the first candidate and the
\* orchestration stage chose none.
C11_Witness ==
    /\ call.fn = "select" /\ call.done
    /\ Len(call.arg.episodes) = 2
    /\ call.arg.today = call.arg.target_date
    /\ \A i \in 1..2 : call.arg.episodes[i].date_str # call.arg.today
    /\ call.out.list_stage = call.arg.episodes[1]
    /\ call.out.orchestration = NoEpisode /\ call.out.exit = 1

\* C12: with a marker of the target date and slot in the text, the result is
\* exactly the trimmed block between the first such marker and the next
\* marker or the end of the text, an empty block included; without one, the
\* result is the whole text, trimmed, with no content dropped.
C12_SliceIsExactlyTheBlock ==
    (call.fn = "slice" /\ call.done) =>
        LET raw == call.arg.script_text
            IsTarget(i) == /\ raw[i] \in MarkerTokens
                           /\ MarkerDate(raw[i]) = call.arg.date
                           /\ MarkerTime(raw[i]) = "21:55"
            targets == {i \in 1..Len(raw) : IsTarget(i)}
        IN  IF targets = {}
            THEN call.out = StripSpace(NormalizeNewlines(raw))
            ELSE \E i \in targets : \E j \in (i + 1)..(Len(raw) + 1) :
                    /\ \A k \in targets : i <= k
                    /\ j = Len(raw) + 1 \/ raw[j] \in MarkerTokens
                    /\ \A k \in (i + 1)..(j - 1) : raw[k] \notin MarkerTokens
                    /\ call.out = StripSpace(NormalizeNewlines(SubSeq(raw, i + 1, j - 1)))

\* C13: sanitizing a sanitized transcript changes nothing, for every
\* transcript, those with nested entity escapes, leaked data-* attributes and
\* tag-like fragments included.
C13_SanitizeIsIdempotent ==
    (call.fn = "sanitize" /\ call.done) => call.out.twice = call.out.once

\* The place of a band in the order A1 < A2 < B1 < B2 < C1 < C2.
BandRank(band) ==
    CASE band = "A1" -> 1 [] band = "A2" -> 2 [] band = "B1" -> 3
      [] band = "B2" -> 4 [] band = "C1" -> 5 [] band = "C2" -> 6

\* C18: the band depends on the score alone: C2 from 7.0, C1 from 6.0, B2
\* from 5.0, B1 from 4.0, A2 from 3.0, else A1; a higher score never gets a
\* lower band; banding the same score twice gives the same band.
C18_BandIsMonotoneInScore ==
    (call.fn = "cefr" /\ call.done) =>
        LET s == call.arg.a
            AtLeast(n) == s >= n * Units
        IN  /\ call.out.a = "C2" <=> AtLeast(7)
            /\ call.out.a = "C1" <=> (AtLeast(6) /\ ~AtLeast(7))
            /\ call.out.a = "B2" <=> (AtLeast(5) /\ ~AtLeast(6))
            /\ call.out.a = "B1" <=> (AtLeast(4) /\ ~AtLeast(5))
            /\ call.out.a = "A2" <=> (AtLeast(3) /\ ~AtLeast(4))
            /\ call.out.a = "A1" <=> ~AtLeast(3)
            /\ call.arg.a <= call.arg.b =>
                   BandRank(call.out.a) <= BandRank(call.out.b)
            /\ call.out.again = call.out.a

\* C18 witness: a score of exactly 5.0 was banded B2 and one just below it B1.
C18_Witness ==
    /\ call.fn = "cefr" /\ call.done
    /\ call.arg.a = 5 * Units - 1 /\ call.out.a = "B1"
    /\ call.arg.b = 5 * Units /\ call.out.b = "B2"

\* The dataset a finished run of analyze_vocabulary returned, and the rows
\* it had retained.
Returned == call.fn = "analyze" /\ call.done

\* C14: the returned dataset has at most top_n_words items, frequency_score
\* does not increase along it, items of equal score are in the order of
\* their lemmas, every item is a retained one, and no retained item left out
\* ranks before an included one: it is the first top_n_words items of the
\* retained items ordered by (-frequency_score, lemma).
C14_DatasetIsSortedAndCut ==
    Returned =>
        LET out == call.out
            kept == {an.results[k] : k \in 1..Len(an.results)}
            shown == {out[k] : k \in 1..Len(out)}
        IN  /\ Len(out) = Min(call.arg.top_n, Len(an.results))
            /\ Len(out) <= call.arg.top_n
            /\ shown \subseteq kept
            /\ \A k \in 1..(Len(out) - 1) :
                  \/ out[k].frequency_score > out[k + 1].frequency_score
                  \/ /\ out[k].frequency_score = out[k + 1].frequency_score
                     /\ ~StrLess(out[k + 1].lemma, out[k].lemma)
            /\ \A r \in kept \ shown : \A s \in shown :
                  \/ r.frequency_score < s.frequency_score
                  \/ /\ r.frequency_score = s.frequency_score
                     /\ ~StrLess(r.lemma, s.lemma)

\* A run returned fewer items than it retained, and the first of them is not
\* the first it retained.
C14_Witness ==
    /\ Returned
    /\ Len(call.out) >= 1
    /\ Len(an.results) > Len(call.out)
    /\ call.out[1] # an.results[1]

\* C15: every lookup of any tier is made for a lemma scored 5.0 or more,
\* and every item of the returned dataset has a frequency_score of 5.0 or
\* more and a band among B2, C1, C2.
C15_LowScoresAreNeverLookedUp ==
    /\ an.pc # "none" =>
          \A k \in 1..Len(an.lookups) :
              FrequencyScore(an.lookups[k].lemma, call.arg.wf) >= 5 * Units
    /\ Returned =>
          \A k \in 1..Len(call.out) :
              /\ call.out[k].frequency_score >= 5 * Units
              /\ call.out[k].cefr_level \in {"B2", "C1", "C2"}

\* A run returned a dataset after it skipped a lemma and looked another up in
\* the lexical database and the dictionary service.
C15_Witness ==
    /\ Returned
    /\ Len(call.out) >= 1
    /\ Len(an.by_lemma) > Len(an.results)
    /\ \E k \in 1..Len(an.lookups) : an.lookups[k].tier = "wordnet"
    /\ \E k \in 1..Len(an.lookups) : an.lookups[k].tier = "api"

\* C16: a lookup that fails (the lexical database raises or is absent, the
\* request fails, the response is not OK or malformed) does not end the
\* analysis, and leaves every field of the candidate as it was.
C16_FailedLookupContributesNothing ==
    [][(/\ an.pc \in {"wordnet", "api"}
        /\ an'.last.outcome \in FailedOutcomes \cup {"raised", "not_called"})
          => (/\ an'.pc \in {"wordnet", "api", "row"}
              /\ an'.fields = an.fields)]_vars

\* C17: no two items of the returned dataset have the same lemma, and an
\* item has the word, pos and context_sentence of the first candidate row of
\* its lemma.
C17_OneItemPerLemmaFromFirstOccurrence ==
    Returned =>
        LET out == call.out
            candidates == call.arg.candidates
            Of(lemma) == {k \in 1..Len(candidates) : candidates[k].lemma = lemma}
            First(lemma) ==
                candidates[CHOOSE k \in Of(lemma) : \A n \in Of(lemma) : k <= n]
        IN  /\ \A i, j \in 1..Len(out) : out[i].lemma = out[j].lemma => i = j
            /\ \A i \in 1..Len(out) :
                  /\ Of(out[i].lemma) # {}
                  /\ out[i].word = First(out[i].lemma).word
                  /\ out[i].pos = First(out[i].lemma).pos
                  /\ out[i].context_sentence = First(out[i].lemma).context_sentence

\* A run returned an item for a lemma that occurs twice among the candidate
\* rows, the second time with another word, pos and sentence.
C17_Witness ==
    /\ Returned
    /\ \E i \in 1..Len(call.out) :
          \E j, k \in 1..Len(call.arg.candidates) :
              /\ j < k
              /\ call.arg.candidates[j].lemma = call.out[i].lemma
              /\ call.arg.candidates[k].lemma = call.out[i].lemma
              /\ call.arg.candidates[j].word # call.arg.candidates[k].word

\* C19: while the media URL of an extraction is not empty, no step of the
\* extraction (an intercepted audio or JSON response, the item of the
\* in-page API, the JSON fallback, the iframe page) changes it.
C19_MediaUrlIsNeverReplaced ==
    [][(InSession /\ session.mp3_url # "") => session'.mp3_url = session.mp3_url]_vars

\* fetch_episode_detail has returned or raised.
Fetched == call.fn = "detail" /\ call.done

\* The tier event is in the trace of the extraction.
Ran(event) == \E k \in 1..Len(session.trace) : session.trace[k] = event

\* The place of a tier event in the fallback chain.
TierRank(event) ==
    CASE event = "session" -> 1
      [] event = "cache" -> 2
      [] event = "iframe_http" -> 3
      [] event = "warning" -> 3
      [] event = "failed" -> 4
      [] event = "static_http" -> 5

\* C20: the tiers of a finished extraction ran in the order of the chain;
\* the intercepted JSON was searched only when the page gave no text; the
\* static page was fetched only when the session failed; and the transcript
\* returned is that of the page when the page gave one, else that of the
\* JSON, and empty when the session failed.
C20_TiersRunInSequence ==
    Fetched =>
        LET page == PickLongestText(session.collected)
            api == ExtractScriptAndMediaFromApiCache(session.api_json_cache, call.arg.date)
        IN  /\ \A i, j \in 1..Len(session.trace) :
                  i < j => TierRank(session.trace[i]) <= TierRank(session.trace[j])
            /\ Ran("cache") => page = <<>> /\ ~Ran("failed")
            /\ Ran("static_http") => Ran("failed")
            /\ Ran("failed") => call.out.script_text = <<>>
            /\ ~Ran("failed") =>
                  call.out.script_text =
                      PostProcess(IF page # <<>> THEN page ELSE api.script, call.arg.date)

\* An extraction returned the transcript of an intercepted JSON payload.
C20_Witness ==
    /\ Fetched
    /\ Ran("cache")
    /\ call.out.script_text = <<"x", "x">>

\* Both selectors have returned.
Selected == call.fn = "select" /\ call.done

\* The places in the list of the candidates dated d.
DatedAt(d) == {i \in 1..Len(call.arg.episodes) : call.arg.episodes[i].date_str = d}

C21_OrchestrationStage ==
    Selected =>
        LET eps == call.arg.episodes
            dt == DatedAt(call.arg.target_date)
        IN  (dt # {} /\ \A i \in dt : ~HasToken(eps[i])) =>
                /\ \E i \in dt : call.out.orchestration = eps[i]
                /\ \A i \in dt : Hhmm(eps[i]) <= Hhmm(call.out.orchestration)

Analyzed == call.fn = "analyze_text" /\ call.done

\* The tagger retained a token of the transcript with this lemma.
TaggerRetained(lemma) ==
    \E n \in 1..Len(call.arg.script_text) :
        /\ call.arg.script_text[n].kind = "noun"
        /\ Lower(Strip(call.arg.script_text[n].lemma)) = lemma

\* C23: with the tagger available the candidates are those of the tagger
\* alone, also when it retained no token: every candidate lemma, and every
\* item of the dataset, is the lemma of a token the tagger retained, never a
\* stopword, a proper noun or a non-alphabetic token.
C23_RegexOnlyWithoutTagger ==
    (call.fn = "analyze_text" /\ call.arg.tagger = "ok" /\ an.pc # "none") =>
        /\ \A k \in 1..Len(an.by_lemma) : TaggerRetained(an.by_lemma[k].lemma)
        /\ call.done => \A k \in 1..Len(call.out) : TaggerRetained(call.out[k].lemma)

FieldNames == {"definition_en", "example_en", "translation_ko", "derivatives", "phonetic"}

\* What the tier the cascade is at supplies for a field of the candidate.
Supplied(field) ==
    IF an.pc = "wordnet"
    THEN (IF field = "phonetic" THEN NoValue
          ELSE WordnetInfo(Cand, call.arg.wn)[field])
    ELSE (IF field \in {"translation_ko", "derivatives"} THEN NoValue
          ELSE FreeDictData(Cand, ServiceOutcome(call.arg.service, Cand))[field])

\* C24: in the cascade for one lemma, a tier leaves a field that is not
\* empty as it is, and sets an empty field to what it supplies for the
\* candidate: each field is that of the first tier and candidate, in walk
\* order, with a value for it.
C24_FieldsAreFilledOnce ==
    [][an.pc \in {"wordnet", "api"} =>
          \A f \in FieldNames :
              an'.fields[f] = (IF an.fields[f] # NoValue THEN an.fields[f]
                               ELSE Supplied(f))]_vars

\* The dictionary service supplied a definition for a candidate, and the
\* definition is still that of the lexical database.
C24_Witness ==
    /\ call.fn = "analyze"
    /\ an.pc = "row"
    /\ an.last.tier = "api" /\ an.last.outcome = "entry"
    /\ an.fields.definition_en.by = "wordnet"
    /\ an.fields.phonetic.by = "api"

\* The fields hold a definition and one of example, phonetic, translation.
Resolved(fields) ==
    /\ fields.definition_en # NoValue
    /\ \/ fields.example_en # NoValue
       \/ fields.phonetic # NoValue
       \/ fields.translation_ko # NoValue

\* C25: the candidates of a lemma are processed in list order, the lexical
\* database before the dictionary service; after a candidate the loop ends
\* when the fields are resolved or the candidate was the last, and else goes
\* on with the next candidate; after the loop no candidate is queried.
C25_StopsAtFirstResolvedCandidate ==
    [][/\ an.pc = "wordnet" => an'.pc = "api" /\ an'.j = an.j /\ an'.i = an.i
       /\ an.pc = "api" =>
             /\ an'.i = an.i
             /\ IF Resolved(an'.fields) \/ an.j = Len(an.cands)
                THEN an'.pc = "row" /\ an'.j = an.j
                ELSE an'.pc = "wordnet" /\ an'.j = an.j + 1
       /\ an.pc = "row" => an'.pc = "lemma" /\ an'.lookups = an.lookups
       /\ (an.pc = "lemma" /\ an'.pc = "wordnet") => an'.j = 1]_vars

\* The loop ended with resolved fields before the last candidate of a lemma.
C25_Witness ==
    /\ call.fn = "analyze"
    /\ an.pc = "row"
    /\ an.j < Len(an.cands)
    /\ Resolved(an.fields)

\* C27: in a run of analyze_vocabulary the dictionary service is asked at
\* most once for a candidate string, its answer, a failed one included, is in
\* the cache, the cache holds one answer for a candidate and only answers to
\* requests of this run, and a candidate answered from the cache was asked
\* for before in this run and gets the answer the request got.
C27_OneRequestPerCandidate ==
    (call.fn = "analyze" /\ an.pc # "none") =>
        LET requests == an.requests
            asked == {requests[k] : k \in 1..Len(requests)}
        IN  /\ \A i, j \in 1..Len(requests) : requests[i] = requests[j] => i = j
            /\ \A cand \in asked : \E c \in an.api_cache : c.cand = cand
            /\ \A c \in an.api_cache : c.cand \in asked
            /\ \A c, d \in an.api_cache : c.cand = d.cand => c = d
            /\ \A c \in an.api_cache :
                  c.data = FreeDictData(c.cand, ServiceOutcome(call.arg.service, c.cand))
            /\ an.last.outcome = "cached" => an.last.cand \in asked

\* In a second run, with the service down, a candidate was answered from
\* the cache of that run.
C27_Witness ==
    /\ call.fn = "analyze"
    /\ an.pc # "none"
    /\ an.run = 2
    /\ call.arg.service = "down"
    /\ an.last.outcome = "cached"
    /\ Len(an.requests) >= 2

\* ---------------------------------------------------------------------- C26
\* The events of the call so far that are k.
EventsOf(k) == SelectSeq(request.events, LAMBDA ev : ev = k)

\* Attempts made so far, and those of them that failed.
Attempts == Len(EventsOf("request"))
FailedAttempts == Len(EventsOf("warning"))

\* The waits lie between two attempts: each follows the handling of a failed
\* attempt and is followed by the next attempt, when the call has gone on.
WaitsOnlyBetweenAttempts ==
    \A i \in 1..Len(request.events) :
        request.events[i] = "sleep" =>
            /\ i > 1 /\ request.events[i - 1] = "warning"
            /\ call.done => i < Len(request.events)
            /\ i < Len(request.events) => request.events[i + 1] = "request"

\* Two attempts in a row have one wait between them.
OneWaitBetweenAttempts ==
    \A i \in 1..Len(request.events) :
        (request.events[i] = "warning" /\ i + 1 < Len(request.events)) =>
            /\ request.events[i + 1] = "sleep"
            /\ request.events[i + 2] = "request"

RetrySafe ==
    (call.arg.retry_count >= 1 /\ request.pc # "none") =>
        /\ Attempts <= call.arg.retry_count
        /\ Attempts = request.attempt - (IF request.pc = "try" THEN 1 ELSE 0)
        /\ WaitsOnlyBetweenAttempts
        /\ OneWaitBetweenAttempts
        /\ request.pc = "sleep" => request.attempt < call.arg.retry_count
        /\ call.done <=> request.pc \in {"returned", "raised"}
        /\ request.pc = "returned" =>
              /\ FailedAttempts = Attempts - 1
              /\ request.events[Len(request.events)] = "request"
              /\ call.out = [status |-> call.out.status, attempt |-> Attempts]
              /\ call.out.status < 400
        /\ request.pc = "raised" =>
              /\ FailedAttempts = call.arg.retry_count
              /\ Attempts = call.arg.retry_count
              /\ request.events[Len(request.events)] = "warning"
              /\ call.out.cause = request.last_exc
        /\ request.pc \notin {"returned", "raised"} => FailedAttempts = Attempts

\* C26: _request_with_retry with retry_count n >= 1 ends; it makes at most n
\* attempts, returns the response of the first attempt that succeeds and makes
\* no attempt after it, waits once between two attempts in a row and never
\* after the last one, and raises after n failed attempts and no fewer.
C26_RetryIsBoundedAndEnds == [](RetrySafe) /\ <>(call.done)

\* A call allowed three attempts has returned the response of its second one,
\* after one wait.
C26_Witness ==
    /\ call.fn = "_request_with_retry" /\ call.done
    /\ call.arg.retry_count = 3
    /\ request.pc = "returned"
    /\ request.events = <<"request", "warning", "sleep", "request">>

\* ---------------------------------------------------------------------- C28
\* The session chooses its transcript: the step from the closed browser on.
ChoosesTranscript == InSession /\ session.pc = "closed" /\ session'.pc = "media"

\* C28: when the UI read of the target row gave text, the session chooses it,
\* also over a longer text of a content selector; the longest text of the
\* selectors is chosen only when the UI read gave none.
C28_UiReadTakesPrecedence ==
    [][ChoosesTranscript =>
         IF session.target_ui_script # <<>>
         THEN session'.script_text
                  = PostProcess(NormalizeSpace(session.target_ui_script), call.arg.date)
         ELSE ~CacheWanted(PickLongestText(session.collected)) =>
                  session'.script_text
                      = PostProcess(PickLongestText(session.collected), call.arg.date)]_vars

\* ---------------------------------------------------------------------- C29
\* The session went through to its end: the cache has been read.
Concluded ==
    /\ call.fn = "detail"
    /\ session.pc \in {"media", "returned"}
    /\ \A i \in 1..Len(session.trace) : session.trace[i] # "failed"

\* The dicts of the intercepted responses, in the order of interception.
Intercepted == [k \in 1..Len(session.handlers) |-> session.handlers[k].data]

\* How many times item stands in the sequence s.
Times(item, s) == Cardinality({i \in 1..Len(s) : s[i] = item})

\* C29: the response callback does not fail the session, whatever arrives
\* and whenever; and when extraction concludes every intercepted JSON dict of
\* the site is in the accumulated cache, none dropped or replaced.
C29_EveryInterceptedDictIsCached ==
    /\ [](Concluded =>
            \A k \in 1..Len(session.handlers) :
                /\ session.handlers[k].at = "appended"
                /\ Times(Intercepted[k], Intercepted)
                      <= Times(Intercepted[k], session.api_json_cache))
    /\ [][session'.arrived # session.arrived \/ session'.handlers # session.handlers
            => session'.pc = session.pc /\ session'.trace = session.trace]_vars

\* ---------------------------------------------------------------------- C30
\* step_crawl has returned an episode to run_pipeline, for target_date.
CrawlReturned ==
    /\ stages # <<>> /\ stages[1] = "crawl"
    /\ episode.date = target_date
    /\ pc \in {"analyze", "report"} \/ (pc = "exited" /\ exit = 0)

\* C30: the episode the crawl step returns for target date D carries the
\* artifact paths of D, the files the orchestrator names for D: persistence
\* used the key and stem of D, also when the static fallback inferred another
\* date.
C30_BundleIsThatOfTargetDate ==
    CrawlReturned =>
        /\ episode.txt_path = target_date
        /\ episode.txt_filename = episode.txt_path

====
